---- MODULE Spec2Model ----
(***************************************************************************)
(* Model of the Codex argument translator (codex-builder.ts and its two    *)
(* other revisions kept in the repository) and of the Codex process runner *)
(* (run-codex.ts, index.ts, validate-env.ts).                              *)
(*                                                                         *)
(* Strings.  A JavaScript string is modelled as a sequence of lexemes.  A  *)
(* lexeme is either one character that shell-quote, JSON.parse or the      *)
(* builder treats specially (space, the two quotes, backslash, comma,      *)
(* colon, braces, brackets, '=', '.', '|', '*') or a maximal run of        *)
(* characters none of them treats specially ("npx", "--mcp-config", "30"). *)
(* Concatenation is \o, the empty string is << >>.  The characters '$' and *)
(* '#' (shell-quote's variable expansion and comments) are not in the      *)
(* alphabet of the inputs explored.                                        *)
(***************************************************************************)
EXTENDS Integers, Sequences, FiniteSets, TLC

SP == " "
SQ == "'"
DQ == "\""
BS == "\\"

\* JavaScript's undefined (an absent argument, property or environment variable).

\* shell-quote's META, '|&;()<> \t', as far as the alphabet has it.
Whitespace == {SP}
ControlChars == {"|"}
Quotes == {SQ, DQ}
GlobChars == {"*"}

----------------------------------------------------------------------------
(* String helpers (String.prototype.trim, startsWith, includes, split, join) *)

RECURSIVE TrimLeft(_)
TrimLeft(s) ==
  IF s # << >> /\ Head(s) \in Whitespace THEN TrimLeft(Tail(s)) ELSE s

RECURSIVE TrimRight(_)
TrimRight(s) ==
  IF s # << >> /\ s[Len(s)] \in Whitespace
    THEN TrimRight(SubSeq(s, 1, Len(s) - 1))
    ELSE s

trim(s) == TrimRight(TrimLeft(s))

\* s.startsWith(p)
startsWith(s, p) == Len(s) >= Len(p) /\ SubSeq(s, 1, Len(p)) = p

\* s.includes(p)
includes(s, p) ==
  \E i \in 1..(Len(s) - Len(p) + 1) : SubSeq(s, i, i + Len(p) - 1) = p

\* Array.prototype.join: the strings of list, sep between neighbours.
RECURSIVE join(_, _)
join(list, sep) ==
  IF list = << >> THEN << >>
  ELSE IF Len(list) = 1 THEN list[1]
  ELSE list[1] \o sep \o join(Tail(list), sep)

\* s.split(sep) for a one-lexeme separator; "".split(",") is [""].
RECURSIVE SplitFrom(_, _, _)
SplitFrom(s, sep, cur) ==
  IF s = << >> THEN << cur >>
  ELSE IF Head(s) = sep THEN << cur >> \o SplitFrom(Tail(s), sep, << >>)
  ELSE SplitFrom(Tail(s), sep, Append(cur, Head(s)))

split(s, sep) == SplitFrom(s, sep, << >>)

\* list.map(f) for f = trim
RECURSIVE MapTrim(_)
MapTrim(list) ==
  IF list = << >> THEN << >> ELSE << trim(Head(list)) >> \o MapTrim(Tail(list))

\* Concatenation of a list of lists (codexArgs.push(...a) repeated).
RECURSIVE Flatten(_)
Flatten(lists) ==
  IF lists = << >> THEN << >> ELSE Head(lists) \o Flatten(Tail(lists))

----------------------------------------------------------------------------
(* shell-quote's parse(), followed by the filter that keeps the strings.   *)

\* The first index from i on whose lexeme is in set, Len(s) + 1 if none.
NextIn(s, i, set) ==
  CHOOSE j \in i..(Len(s) + 1) :
    /\ j > Len(s) \/ s[j] \in set
    /\ \A k \in i..(j - 1) : s[k] \notin set

\* The first index from i on that is not whitespace, Len(s) + 1 if none.
SkipWS(s, i) ==
  CHOOSE j \in i..(Len(s) + 1) :
    /\ j > Len(s) \/ s[j] \notin Whitespace
    /\ \A k \in i..(j - 1) : s[k] \in Whitespace

\* Index of the quote that closes a quoted piece whose text starts at i, by
\* the lazy pattern q((\\q|[^q])*?)q : the first q not preceded by a
\* backslash; failing that (backtracking) the last q preceded by one; 0 when
\* there is neither.
FindClose(s, i, q) ==
  LET Escaped(j) == j > i /\ s[j - 1] = BS
      plain == {j \in i..Len(s) : s[j] = q /\ ~Escaped(j)}
      escaped == {j \in i..Len(s) : s[j] = q /\ Escaped(j)}
  IN IF plain # {} THEN CHOOSE j \in plain : \A k \in plain : j <= k
     ELSE IF escaped # {} THEN CHOOSE j \in escaped : \A k \in escaped : k <= j
     ELSE 0

\* First index after the chunk (BAREWORD|SINGLE_QUOTE|DOUBLE_QUOTE)+ that
\* starts at i; i itself when no chunk starts there.
RECURSIVE ChunkEnd(_, _)
ChunkEnd(s, i) ==
  LET p == NextIn(s, i, Quotes \cup Whitespace \cup ControlChars \cup {BS}) IN
  IF p > Len(s) THEN p
  ELSE IF s[p] \in (Whitespace \cup ControlChars) THEN p
  ELSE IF s[p] = BS THEN
    IF p < Len(s) /\ s[p + 1] \in (Quotes \cup ControlChars \cup Whitespace)
      THEN ChunkEnd(s, p + 2)
      ELSE ChunkEnd(s, p + 1)
  ELSE LET r == FindClose(s, p + 1, s[p]) IN
       IF r = 0 THEN p ELSE ChunkEnd(s, r + 1)

\* The character loop of parse() over one chunk from index i: quote is ""
\* or the open quote, out the text so far.  Runs of characters the loop
\* copies are taken in one step.
RECURSIVE UnquoteChunk(_, _, _, _, _)
UnquoteChunk(s, i, quote, out, isGlob) ==
  IF i > Len(s) THEN [out |-> out, isGlob |-> isGlob]
  ELSE IF quote = SQ THEN
    LET p == NextIn(s, i, {SQ}) IN
    UnquoteChunk(s, p + 1, "", out \o SubSeq(s, i, p - 1), isGlob)
  ELSE IF quote = DQ THEN
    LET p == NextIn(s, i, {DQ, BS})
        o == out \o SubSeq(s, i, p - 1)
    IN IF p > Len(s) THEN [out |-> o, isGlob |-> isGlob]
       ELSE IF s[p] = DQ THEN UnquoteChunk(s, p + 1, "", o, isGlob)
       ELSE IF p = Len(s) THEN [out |-> Append(o, BS), isGlob |-> isGlob]
       ELSE IF s[p + 1] \in {DQ, BS}
         THEN UnquoteChunk(s, p + 2, DQ, Append(o, s[p + 1]), isGlob)
         ELSE UnquoteChunk(s, p + 2, DQ, o \o << BS, s[p + 1] >>, isGlob)
  ELSE
    LET p == NextIn(s, i, Quotes \cup GlobChars \cup {BS})
        o == out \o SubSeq(s, i, p - 1)
    IN IF p > Len(s) THEN [out |-> o, isGlob |-> isGlob]
       ELSE IF s[p] \in Quotes THEN UnquoteChunk(s, p + 1, s[p], o, isGlob)
       ELSE IF s[p] \in GlobChars THEN UnquoteChunk(s, p + 1, "", Append(o, s[p]), TRUE)
       ELSE IF p = Len(s) THEN [out |-> o, isGlob |-> isGlob]
       ELSE UnquoteChunk(s, p + 2, "", Append(o, s[p + 1]),
                         isGlob \/ s[p + 1] \in GlobChars)

\* parse(s).filter(arg => typeof arg === "string"): operators and glob
\* patterns are objects and are filtered out.
RECURSIVE ParseFrom(_, _)
ParseFrom(s, i) ==
  LET b == SkipWS(s, i) IN
  IF b > Len(s) THEN << >>
  ELSE LET e == ChunkEnd(s, b) IN
    IF e = b THEN ParseFrom(s, b + 1)
    ELSE LET u == UnquoteChunk(SubSeq(s, b, e - 1), 1, "", << >>, FALSE) IN
      (IF u.isGlob THEN << >> ELSE << u.out >>) \o ParseFrom(s, e)

parseShellArgs(s) == ParseFrom(s, 1)

----------------------------------------------------------------------------
(* JSON values, JSON.parse and JSON.stringify, JavaScript coercions.       *)

JUndefined == [t |-> "undefined"]
JNull == [t |-> "null"]
JStr(s) == [t |-> "string", s |-> s]
JNum(n) == [t |-> "number", n |-> n]
JBool(b) == [t |-> "boolean", b |-> b]
JArr(items) == [t |-> "array", items |-> items]
JObj(keys, vals) == [t |-> "object", keys |-> keys, vals |-> vals]

\* The number lexemes of the alphabet and their values.
NumVal == [l \in {"0", "1", "2", "30"} |->
             CASE l = "0" -> 0 [] l = "1" -> 1 [] l = "2" -> 2 [] l = "30" -> 30]
NumLex(n) == CHOOSE l \in DOMAIN NumVal : NumVal[l] = n

\* Position of key k in keys, 0 when absent.
IndexOf(keys, k) ==
  IF \E i \in 1..Len(keys) : keys[i] = k
    THEN CHOOSE i \in 1..Len(keys) : keys[i] = k
    ELSE 0

\* A member added to an object under construction: a repeated key keeps its
\* first position and takes the last value.
ObjSet(o, k, v) ==
  LET p == IndexOf(o.keys, k) IN
  IF p = 0 THEN JObj(Append(o.keys, k), Append(o.vals, v))
  ELSE JObj(o.keys, [o.vals EXCEPT ![p] = v])

\* obj[k] / obj.k : undefined for a missing key and for a value without
\* own properties of that name.
Get(v, k) ==
  IF v.t = "object" /\ IndexOf(v.keys, k) # 0
    THEN v.vals[IndexOf(v.keys, k)]
    ELSE JUndefined

JFail == [ok |-> FALSE]
JOk(v, next) == [ok |-> TRUE, val |-> v, next |-> next]

\* The characters of a JSON string up to its closing quote (i is after the
\* opening one); of the escapes only \" and \\ are in the alphabet.
RECURSIVE ParseString(_, _, _)
ParseString(s, i, acc) ==
  IF i > Len(s) THEN JFail
  ELSE IF s[i] = DQ THEN JOk(acc, i + 1)
  ELSE IF s[i] = BS THEN
    IF i < Len(s) /\ s[i + 1] \in {DQ, BS}
      THEN ParseString(s, i + 2, Append(acc, s[i + 1]))
      ELSE JFail
  ELSE ParseString(s, i + 1, Append(acc, s[i]))

RECURSIVE ParseValue(_, _)
RECURSIVE ParseMembers(_, _, _)
RECURSIVE ParseElements(_, _, _)

\* The members of an object after '{' or ',' (i is at the next member).
ParseMembers(s, i, o) ==
  LET k0 == SkipWS(s, i) IN
  IF k0 > Len(s) \/ s[k0] # DQ THEN JFail
  ELSE LET k == ParseString(s, k0 + 1, << >>) IN
    IF ~k.ok THEN JFail
    ELSE LET c == SkipWS(s, k.next) IN
      IF c > Len(s) \/ s[c] # ":" THEN JFail
      ELSE LET v == ParseValue(s, c + 1) IN
        IF ~v.ok THEN JFail
        ELSE LET e == SkipWS(s, v.next)
                 o2 == ObjSet(o, k.val, v.val) IN
          IF e > Len(s) THEN JFail
          ELSE IF s[e] = "}" THEN JOk(o2, e + 1)
          ELSE IF s[e] = "," THEN ParseMembers(s, e + 1, o2)
          ELSE JFail

\* The elements of an array after '[' or ','.
ParseElements(s, i, items) ==
  LET v == ParseValue(s, i) IN
  IF ~v.ok THEN JFail
  ELSE LET e == SkipWS(s, v.next)
           items2 == Append(items, v.val) IN
    IF e > Len(s) THEN JFail
    ELSE IF s[e] = "]" THEN JOk(JArr(items2), e + 1)
    ELSE IF s[e] = "," THEN ParseElements(s, e + 1, items2)
    ELSE JFail

ParseValue(s, i) ==
  LET b == SkipWS(s, i) IN
  IF b > Len(s) THEN JFail
  ELSE LET c == s[b] IN
    IF c = "{" THEN
      LET n == SkipWS(s, b + 1) IN
      IF n <= Len(s) /\ s[n] = "}" THEN JOk(JObj(<< >>, << >>), n + 1)
      ELSE ParseMembers(s, b + 1, JObj(<< >>, << >>))
    ELSE IF c = "[" THEN
      LET n == SkipWS(s, b + 1) IN
      IF n <= Len(s) /\ s[n] = "]" THEN JOk(JArr(<< >>), n + 1)
      ELSE ParseElements(s, b + 1, << >>)
    ELSE IF c = DQ THEN
      LET r == ParseString(s, b + 1, << >>) IN
      IF r.ok THEN JOk(JStr(r.val), r.next) ELSE JFail
    ELSE IF c \in DOMAIN NumVal THEN JOk(JNum(NumVal[c]), b + 1)
    ELSE IF c = "null" THEN JOk(JNull, b + 1)
    ELSE IF c = "true" THEN JOk(JBool(TRUE), b + 1)
    ELSE IF c = "false" THEN JOk(JBool(FALSE), b + 1)
    ELSE JFail

\* JSON.parse(text): [ok |-> FALSE] stands for the SyntaxError it throws.
JSONparse(text) ==
  LET r == ParseValue(text, 1) IN
  IF r.ok /\ SkipWS(text, r.next) > Len(text) THEN r ELSE JFail

\* value.replace(/"/g, '\\"')
RECURSIVE EscapeQuotes(_)
EscapeQuotes(s) ==
  IF s = << >> THEN << >>
  ELSE (IF Head(s) = DQ THEN << BS, DQ >> ELSE << Head(s) >>) \o EscapeQuotes(Tail(s))

\* The quoting of JSON.stringify for a string.
RECURSIVE QuoteJSON(_)
QuoteJSON(s) ==
  IF s = << >> THEN << >>
  ELSE (IF Head(s) \in {DQ, BS} THEN << BS, Head(s) >> ELSE << Head(s) >>)
         \o QuoteJSON(Tail(s))

RECURSIVE JSONstringify(_)
RECURSIVE StringifyItems(_)
RECURSIVE StringifyMembers(_, _)
StringifyItems(items) ==
  IF items = << >> THEN << >>
  ELSE << JSONstringify(Head(items)) >> \o StringifyItems(Tail(items))

StringifyMembers(keys, vals) ==
  IF keys = << >> THEN << >>
  ELSE << << DQ >> \o QuoteJSON(Head(keys)) \o << DQ, ":" >> \o JSONstringify(Head(vals)) >>
         \o StringifyMembers(Tail(keys), Tail(vals))

JSONstringify(v) ==
  CASE v.t = "string" -> << DQ >> \o QuoteJSON(v.s) \o << DQ >>
    [] v.t = "number" -> << NumLex(v.n) >>
    [] v.t = "boolean" -> << IF v.b THEN "true" ELSE "false" >>
    [] v.t = "null" -> << "null" >>
    [] v.t = "array" -> << "[" >> \o join(StringifyItems(v.items), << "," >>) \o << "]" >>
    [] v.t = "object" -> << "{" >> \o join(StringifyMembers(v.keys, v.vals), << "," >>) \o << "}" >>

\* String(v), the conversion of a template literal.
RECURSIVE StringOf(_)
RECURSIVE StringOfItems(_)
StringOfItems(items) ==
  IF items = << >> THEN << >>
  ELSE << IF Head(items).t \in {"null", "undefined"} THEN << >> ELSE StringOf(Head(items)) >>
         \o StringOfItems(Tail(items))

StringOf(v) ==
  CASE v.t = "string" -> v.s
    [] v.t = "number" -> << NumLex(v.n) >>
    [] v.t = "boolean" -> << IF v.b THEN "true" ELSE "false" >>
    [] v.t = "null" -> << "null" >>
    [] v.t = "undefined" -> << "undefined" >>
    [] v.t = "array" -> join(StringOfItems(v.items), << "," >>)
    [] v.t = "object" -> << "[", "object", SP, "Object", "]" >>

\* JavaScript truthiness.
Truthy(v) ==
  CASE v.t = "string" -> v.s # << >>
    [] v.t = "number" -> v.n # 0
    [] v.t = "boolean" -> v.b
    [] v.t \in {"null", "undefined"} -> FALSE
    [] v.t \in {"array", "object"} -> TRUE

\* Object.entries(v) as a sequence of [k, v] records: own members in
\* insertion order, array elements under their index, nothing for a number
\* or a boolean.
Entries(v) ==
  CASE v.t = "object" -> [i \in 1..Len(v.keys) |-> [k |-> v.keys[i], v |-> v.vals[i]]]
    [] v.t = "array" -> [i \in 1..Len(v.items) |-> [k |-> << NumLex(i - 1) >>, v |-> v.items[i]]]
    [] v.t = "string" -> [i \in 1..Len(v.s) |-> [k |-> << NumLex(i - 1) >>, v |-> JStr(<< v.s[i] >>)]]
    [] OTHER -> << >>

----------------------------------------------------------------------------
(* src/modes/shared/codex-builder.ts                                       *)

\* An absent optional string argument or environment variable is
\* JUndefined, a present one JStr(s).

\* The assignments of one server: the body of the for loop.
ServerArgs(serverId, config) ==
  LET command == Get(config, << "command" >>)
      args == Get(config, << "args" >>)
      env == Get(config, << "env" >>)
      startup == Get(config, << "startup_timeout_sec" >>)
      tool == Get(config, << "tool_timeout_sec" >>)
      prefix == << "mcp_servers", "." >> \o serverId \o << "." >>
      envEntries == [i \in 1..Len(Entries(env)) |->
                       Entries(env)[i].k \o << "=", DQ >>
                         \o StringOf(Entries(env)[i].v) \o << DQ >>]
  IN
    (IF Truthy(command)
       THEN << << "-c" >>,
               prefix \o << "command", "=", DQ >> \o StringOf(command) \o << DQ >> >>
       ELSE << >>)
    \o (IF Truthy(args) /\ args.t = "array"
       THEN << << "-c" >>, prefix \o << "args", "=" >> \o JSONstringify(args) >>
       ELSE << >>)
    \o (IF Truthy(env) /\ env.t \in {"object", "array"} /\ Len(envEntries) > 0
       THEN << << "-c" >>,
               prefix \o << "env", SP, "=", SP, "{", SP >>
                 \o join(envEntries, << ",", SP >>) \o << SP, "}" >> >>
       ELSE << >>)
    \o (IF Truthy(startup)
       THEN << << "-c" >>,
               prefix \o << "startup_timeout_sec", SP, "=", SP >> \o StringOf(startup) >>
       ELSE << >>)
    \o (IF Truthy(tool)
       THEN << << "-c" >>,
               prefix \o << "tool_timeout_sec", SP, "=", SP >> \o StringOf(tool) >>
       ELSE << >>)

\* The for loop over Object.entries(mcpConfig.mcpServers) inside the try:
\* reading a property of a null server record throws a TypeError, which
\* the catch turns into a warning, and the function returns args as it is.
RECURSIVE ConvertServers(_, _)
ConvertServers(entries, args) ==
  IF entries = << >> THEN args
  ELSE IF Head(entries).v.t = "null" THEN args
  ELSE ConvertServers(Tail(entries),
                      args \o ServerArgs(Head(entries).k, Head(entries).v))

\* A variant that hands a fragment it cannot parse on as it is.
convertMcpConfigToCliArgs_raw(mcpConfigJson) ==
  LET parsed == JSONparse(mcpConfigJson) IN
  IF ~parsed.ok THEN << << "-c" >>, mcpConfigJson >>
  ELSE IF ~Truthy(Get(parsed.val, << "mcpServers" >>)) THEN << >>
  ELSE ConvertServers(Entries(Get(parsed.val, << "mcpServers" >>)), << >>)

convertMcpConfigToCliArgs(mcpConfigJson) ==
  LET parsed == JSONparse(mcpConfigJson) IN
  IF ~parsed.ok THEN << >>
  ELSE IF ~Truthy(Get(parsed.val, << "mcpServers" >>)) THEN << >>
  ELSE ConvertServers(Entries(Get(parsed.val, << "mcpServers" >>)), << >>)

convertAllowedToolsToCliArgs(tools) ==
  IF Len(tools) = 0 THEN << >>
  ELSE << << "-c" >>,
          << "tools", ".", "allowed", "=" >>
            \o JSONstringify(JArr([i \in 1..Len(tools) |-> JStr(tools[i])])) >>

\* arg.startsWith("--verbose") and arg.includes("output-format") on lexemes:
\* the lexemes of the alphabet that begin with / contain these words.
StartsWithVerbose(arg) == arg # << >> /\ arg[1] \in {"--verbose"}
IncludesOutputFormat(arg) ==
  \E i \in 1..Len(arg) : arg[i] \in {"--output-format", "output-format"}

\* A variant that keeps one copy of a pass-through token.
RECURSIVE ClassifyArgs_dedupe(_, _, _)
ClassifyArgs_dedupe(args, i, acc) ==
  IF i > Len(args) THEN acc
  ELSE LET arg == args[i] IN
    IF arg = << "--mcp-config" >> /\ i + 1 <= Len(args)
      THEN ClassifyArgs_dedupe(args, i + 2,
             [acc EXCEPT !.mcpConfigs = Append(@, args[i + 1])])
    ELSE IF arg = << "--allowedTools" >> /\ i + 1 <= Len(args)
      THEN ClassifyArgs_dedupe(args, i + 2,
             [acc EXCEPT !.allowedTools = @ \o MapTrim(split(args[i + 1], ","))])
    ELSE IF ~StartsWithVerbose(arg) /\ ~IncludesOutputFormat(arg)
              /\ \A j \in 1..Len(acc.otherArgs) : acc.otherArgs[j] # arg
      THEN ClassifyArgs_dedupe(args, i + 1, [acc EXCEPT !.otherArgs = Append(@, arg)])
    ELSE ClassifyArgs_dedupe(args, i + 1, acc)

\* The classification loop of parseClaudeArgs from index i on.
RECURSIVE ClassifyArgs(_, _, _)
ClassifyArgs(args, i, acc) ==
  IF i > Len(args) THEN acc
  ELSE LET arg == args[i] IN
    IF arg = << "--mcp-config" >> /\ i + 1 <= Len(args)
      THEN ClassifyArgs(args, i + 2,
             [acc EXCEPT !.mcpConfigs = Append(@, args[i + 1])])
    ELSE IF arg = << "--allowedTools" >> /\ i + 1 <= Len(args)
      THEN ClassifyArgs(args, i + 2,
             [acc EXCEPT !.allowedTools = @ \o MapTrim(split(args[i + 1], ","))])
    ELSE IF ~StartsWithVerbose(arg) /\ ~IncludesOutputFormat(arg)
      THEN ClassifyArgs(args, i + 1, [acc EXCEPT !.otherArgs = Append(@, arg)])
    ELSE ClassifyArgs(args, i + 1, acc)

NoClaudeArgs == [mcpConfigs |-> << >>, allowedTools |-> << >>, otherArgs |-> << >>]

parseClaudeArgs(claudeArgs) ==
  IF trim(claudeArgs) = << >> THEN NoClaudeArgs
  ELSE ClassifyArgs(parseShellArgs(claudeArgs), 1, NoClaudeArgs)

\* mcpConfigs.map(convertMcpConfigToCliArgs), one list per fragment.
RECURSIVE ConvertAll(_)
ConvertAll(mcpConfigs) ==
  IF mcpConfigs = << >> THEN << >>
  ELSE << convertMcpConfigToCliArgs(Head(mcpConfigs)) >> \o ConvertAll(Tail(mcpConfigs))

\* A variant in which the arguments of the user replace the fixed flags.
codexArgs_userReplaces(claudeArgs, additionalMcpConfig, userCodexArgs) ==
  LET p == parseClaudeArgs(claudeArgs)
      mcpConfigs == p.mcpConfigs
                      \o (IF Truthy(additionalMcpConfig)
                            THEN << additionalMcpConfig.s >> ELSE << >>)
      user == IF userCodexArgs.t = "string" /\ trim(userCodexArgs.s) # << >>
                THEN parseShellArgs(userCodexArgs.s) ELSE << >>
  IN (IF user = << >>
        THEN << << "exec" >>, << "--experimental-json" >>,
                << "--dangerously-bypass-approvals-and-sandbox" >> >>
        ELSE << << "exec" >> >>)
     \o Flatten(ConvertAll(mcpConfigs))
     \o (IF Len(p.allowedTools) > 0
           THEN convertAllowedToolsToCliArgs(p.allowedTools) ELSE << >>)
     \o p.otherArgs
     \o user

\* The list codexArgs that buildCodexArgs has assembled when it joins it.
codexArgs(claudeArgs, additionalMcpConfig, userCodexArgs) ==
  LET p == parseClaudeArgs(claudeArgs)
      mcpConfigs == p.mcpConfigs
                      \o (IF Truthy(additionalMcpConfig)
                            THEN << additionalMcpConfig.s >> ELSE << >>)
  IN << << "exec" >>, << "--experimental-json" >>,
        << "--dangerously-bypass-approvals-and-sandbox" >> >>
     \o Flatten(ConvertAll(mcpConfigs))
     \o (IF Len(p.allowedTools) > 0
           THEN convertAllowedToolsToCliArgs(p.allowedTools) ELSE << >>)
     \o p.otherArgs
     \o (IF userCodexArgs.t = "string" /\ trim(userCodexArgs.s) # << >>
           THEN parseShellArgs(userCodexArgs.s) ELSE << >>)

buildCodexArgs(claudeArgs, additionalMcpConfig, userCodexArgs) ==
  join(codexArgs(claudeArgs, additionalMcpConfig, userCodexArgs), << SP >>)

----------------------------------------------------------------------------
(* The revision of codex-builder.ts in src/unnamed/part_000 (suffix _p0):  *)
(* one assignment per env key, no tools.allowed, empty tokens skipped.     *)

\* One "-c" pair per entry of config.env, quotes in the value escaped.
RECURSIVE EnvArgs_p0(_, _)
EnvArgs_p0(prefix, entries) ==
  IF entries = << >> THEN << >>
  ELSE << << "-c" >>,
          prefix \o << "env", "." >> \o Head(entries).k \o << "=", DQ >>
            \o EscapeQuotes(StringOf(Head(entries).v)) \o << DQ >> >>
       \o EnvArgs_p0(prefix, Tail(entries))

ServerArgs_p0(serverId, config) ==
  LET command == Get(config, << "command" >>)
      args == Get(config, << "args" >>)
      env == Get(config, << "env" >>)
      startup == Get(config, << "startup_timeout_sec" >>)
      tool == Get(config, << "tool_timeout_sec" >>)
      prefix == << "mcp_servers", "." >> \o serverId \o << "." >>
  IN
    (IF Truthy(command)
       THEN << << "-c" >>,
               prefix \o << "command", "=", DQ >> \o StringOf(command) \o << DQ >> >>
       ELSE << >>)
    \o (IF Truthy(args) /\ args.t = "array"
       THEN << << "-c" >>, prefix \o << "args", "=" >> \o JSONstringify(args) >>
       ELSE << >>)
    \o (IF Truthy(env) /\ env.t \in {"object", "array"}
       THEN EnvArgs_p0(prefix, Entries(env))
       ELSE << >>)
    \o (IF Truthy(startup)
       THEN << << "-c" >>, prefix \o << "startup_timeout_sec", "=" >> \o StringOf(startup) >>
       ELSE << >>)
    \o (IF Truthy(tool)
       THEN << << "-c" >>, prefix \o << "tool_timeout_sec", "=" >> \o StringOf(tool) >>
       ELSE << >>)

RECURSIVE ConvertServers_p0(_, _)
ConvertServers_p0(entries, args) ==
  IF entries = << >> THEN args
  ELSE IF Head(entries).v.t = "null" THEN args
  ELSE ConvertServers_p0(Tail(entries),
                         args \o ServerArgs_p0(Head(entries).k, Head(entries).v))

convertMcpConfigToCliArgs_p0(mcpConfigJson) ==
  LET parsed == JSONparse(mcpConfigJson) IN
  IF ~parsed.ok THEN << >>
  ELSE IF ~Truthy(Get(parsed.val, << "mcpServers" >>)) THEN << >>
  ELSE ConvertServers_p0(Entries(Get(parsed.val, << "mcpServers" >>)), << >>)

RECURSIVE ClassifyArgs_p0(_, _, _)
ClassifyArgs_p0(args, i, acc) ==
  IF i > Len(args) THEN acc
  ELSE LET arg == args[i] IN
    IF arg = << "--mcp-config" >> /\ i + 1 <= Len(args)
      THEN ClassifyArgs_p0(args, i + 2,
             IF args[i + 1] # << >>
               THEN [acc EXCEPT !.mcpConfigs = Append(@, args[i + 1])]
               ELSE acc)
    ELSE IF arg = << "--allowedTools" >> /\ i + 1 <= Len(args)
      THEN ClassifyArgs_p0(args, i + 2,
             IF args[i + 1] # << >>
               THEN [acc EXCEPT !.allowedTools = @ \o MapTrim(split(args[i + 1], ","))]
               ELSE acc)
    ELSE IF ~StartsWithVerbose(arg) /\ ~IncludesOutputFormat(arg) /\ arg # << >>
      THEN ClassifyArgs_p0(args, i + 1, [acc EXCEPT !.otherArgs = Append(@, arg)])
    ELSE ClassifyArgs_p0(args, i + 1, acc)

parseClaudeArgs_p0(claudeArgs) ==
  IF trim(claudeArgs) = << >> THEN NoClaudeArgs
  ELSE ClassifyArgs_p0(parseShellArgs(claudeArgs), 1, NoClaudeArgs)

RECURSIVE ConvertAll_p0(_)
ConvertAll_p0(mcpConfigs) ==
  IF mcpConfigs = << >> THEN << >>
  ELSE << convertMcpConfigToCliArgs_p0(Head(mcpConfigs)) >>
         \o ConvertAll_p0(Tail(mcpConfigs))

codexArgs_p0(claudeArgs, additionalMcpConfig, userCodexArgs) ==
  LET p == parseClaudeArgs_p0(claudeArgs)
      mcpConfigs == p.mcpConfigs
                      \o (IF Truthy(additionalMcpConfig)
                            THEN << additionalMcpConfig.s >> ELSE << >>)
  IN << << "exec" >>, << "--experimental-json" >>,
        << "--dangerously-bypass-approvals-and-sandbox" >> >>
     \o Flatten(ConvertAll_p0(mcpConfigs))
     \o p.otherArgs
     \o (IF userCodexArgs.t = "string" /\ trim(userCodexArgs.s) # << >>
           THEN parseShellArgs(userCodexArgs.s) ELSE << >>)

buildCodexArgs_p0(claudeArgs, additionalMcpConfig, userCodexArgs) ==
  join(codexArgs_p0(claudeArgs, additionalMcpConfig, userCodexArgs), << SP >>)

----------------------------------------------------------------------------
(* The revision of codex-builder.ts in src/unnamed/part_001 (suffix _p1):  *)
(* exec-level options of the user moved behind "exec --full-auto", values  *)
(* wrapped in single quotes, an optional prompt as the last token.         *)

\* The lexemes of the alphabet that begin with "--" and with "-".
LongOptionLexemes ==
  {"--timeout", "--color", "--sandbox", "--model", "--full-auto", "--verbose",
   "--mcp-config", "--allowedTools", "--output-format", "--experimental-json",
   "--dangerously-bypass-approvals-and-sandbox"}
DashLexemes == LongOptionLexemes \cup {"-c", "-y"}

StartsWithDashDash(arg) == arg # << >> /\ arg[1] \in LongOptionLexemes
StartsWithDash(arg) == arg # << >> /\ arg[1] \in DashLexemes
StartsWithExperimentalJson(arg) == arg # << >> /\ arg[1] = "--experimental-json"
StartsWithDangerously(arg) ==
  arg # << >> /\ arg[1] = "--dangerously-bypass-approvals-and-sandbox"

RECURSIVE EnvEntries_p1(_)
EnvEntries_p1(entries) ==
  IF entries = << >> THEN << >>
  ELSE << << DQ >> \o Head(entries).k \o << DQ, SP, "=", SP, DQ >>
            \o EscapeQuotes(StringOf(Head(entries).v)) \o << DQ >> >>
       \o EnvEntries_p1(Tail(entries))

ServerArgs_p1(serverId, config) ==
  LET command == Get(config, << "command" >>)
      args == Get(config, << "args" >>)
      env == Get(config, << "env" >>)
      startup == Get(config, << "startup_timeout_sec" >>)
      tool == Get(config, << "tool_timeout_sec" >>)
      prefix == << "mcp_servers", "." >> \o serverId \o << "." >>
  IN
    (IF Truthy(command)
       THEN << << "-c" >>,
               prefix \o << "command", "=", DQ >> \o StringOf(command) \o << DQ >> >>
       ELSE << >>)
    \o (IF Truthy(args) /\ args.t = "array"
       THEN << << "-c" >>,
               prefix \o << "args", "=", SQ >> \o JSONstringify(args) \o << SQ >> >>
       ELSE << >>)
    \o (IF Truthy(env) /\ env.t \in {"object", "array"} /\ Len(Entries(env)) > 0
       THEN << << "-c" >>,
               prefix \o << "env", "=", SQ, "{", SP >>
                 \o join(EnvEntries_p1(Entries(env)), << ",", SP >>)
                 \o << SP, "}", SQ >> >>
       ELSE << >>)
    \o (IF Truthy(startup)
       THEN << << "-c" >>, prefix \o << "startup_timeout_sec", "=" >> \o StringOf(startup) >>
       ELSE << >>)
    \o (IF Truthy(tool)
       THEN << << "-c" >>, prefix \o << "tool_timeout_sec", "=" >> \o StringOf(tool) >>
       ELSE << >>)

RECURSIVE ConvertServers_p1(_, _)
ConvertServers_p1(entries, args) ==
  IF entries = << >> THEN args
  ELSE IF Head(entries).v.t = "null" THEN args
  ELSE ConvertServers_p1(Tail(entries),
                         args \o ServerArgs_p1(Head(entries).k, Head(entries).v))

convertMcpConfigToCliArgs_p1(mcpConfigJson) ==
  LET parsed == JSONparse(mcpConfigJson) IN
  IF ~parsed.ok THEN << >>
  ELSE IF ~Truthy(Get(parsed.val, << "mcpServers" >>)) THEN << >>
  ELSE ConvertServers_p1(Entries(Get(parsed.val, << "mcpServers" >>)), << >>)

RECURSIVE ClassifyArgs_p1(_, _, _)
ClassifyArgs_p1(args, i, acc) ==
  IF i > Len(args) THEN acc
  ELSE LET arg == args[i] IN
    IF arg = << "--mcp-config" >> /\ i + 1 <= Len(args)
      THEN ClassifyArgs_p1(args, i + 2,
             IF args[i + 1] # << >>
               THEN [acc EXCEPT !.mcpConfigs = Append(@, args[i + 1])]
               ELSE acc)
    ELSE IF arg = << "--allowedTools" >> /\ i + 1 <= Len(args)
      THEN ClassifyArgs_p1(args, i + 2,
             IF args[i + 1] # << >>
               THEN [acc EXCEPT !.allowedTools = @ \o MapTrim(split(args[i + 1], ","))]
               ELSE acc)
    ELSE IF ~StartsWithVerbose(arg) /\ ~IncludesOutputFormat(arg) /\ arg # << >>
      THEN ClassifyArgs_p1(args, i + 1, [acc EXCEPT !.otherArgs = Append(@, arg)])
    ELSE ClassifyArgs_p1(args, i + 1, acc)

parseClaudeArgs_p1(claudeArgs) ==
  IF trim(claudeArgs) = << >> THEN NoClaudeArgs
  ELSE ClassifyArgs_p1(parseShellArgs(claudeArgs), 1, NoClaudeArgs)

\* The loop that extracts the exec-level options of userArgs from index i.
RECURSIVE ExecOptions_p1(_, _)
ExecOptions_p1(userArgs, i) ==
  IF i > Len(userArgs) THEN << >>
  ELSE LET arg == userArgs[i] IN
    IF arg = << >> THEN ExecOptions_p1(userArgs, i + 1)
    ELSE IF StartsWithDashDash(arg) /\ ~StartsWithExperimentalJson(arg)
              /\ ~StartsWithDangerously(arg)
      THEN IF i + 1 <= Len(userArgs) /\ userArgs[i + 1] # << >>
                /\ ~StartsWithDash(userArgs[i + 1])
             THEN << arg, userArgs[i + 1] >> \o ExecOptions_p1(userArgs, i + 2)
             ELSE << arg >> \o ExecOptions_p1(userArgs, i + 1)
    ELSE ExecOptions_p1(userArgs, i + 1)

RECURSIVE ConvertAll_p1(_)
ConvertAll_p1(mcpConfigs) ==
  IF mcpConfigs = << >> THEN << >>
  ELSE << convertMcpConfigToCliArgs_p1(Head(mcpConfigs)) >>
         \o ConvertAll_p1(Tail(mcpConfigs))

codexArgs_p1(claudeArgs, additionalMcpConfig, userCodexArgs, prompt) ==
  LET userExecOptions ==
        IF userCodexArgs.t = "string" /\ trim(userCodexArgs.s) # << >>
          THEN ExecOptions_p1(parseShellArgs(userCodexArgs.s), 1) ELSE << >>
      p == parseClaudeArgs_p1(claudeArgs)
      mcpConfigs == p.mcpConfigs
                      \o (IF Truthy(additionalMcpConfig)
                            THEN << additionalMcpConfig.s >> ELSE << >>)
  IN << << "exec" >>, << "--full-auto" >> >>
     \o userExecOptions
     \o << << "--experimental-json" >>,
           << "--dangerously-bypass-approvals-and-sandbox" >>,
           << "-c", SP, "env_key", "=", "OPENAI_API_KEY" >> >>
     \o Flatten(ConvertAll_p1(mcpConfigs))
     \o p.otherArgs
     \o (IF Truthy(prompt) THEN << << DQ >> \o prompt.s \o << DQ >> >> ELSE << >>)

buildCodexArgs_p1(claudeArgs, additionalMcpConfig, userCodexArgs, prompt) ==
  join(codexArgs_p1(claudeArgs, additionalMcpConfig, userCodexArgs, prompt), << SP >>)

----------------------------------------------------------------------------
(* The process environment, buildCodexEnv, prepareCodexConfig              *)
(* (src/unnamed/part_003) and validateEnvironmentVariables.                *)

\* The environment variables the code reads or writes, and PATH as the
\* one that is only inherited.
EnvNames ==
  {"INPUT_USE_CODEX", "INPUT_PATH_TO_CODEX_EXECUTABLE",
   "OPENAI_API_KEY", "INPUT_OPENAI_API_KEY",
   "OPENAI_BASE_URL", "INPUT_OPENAI_BASE_URL",
   "GITHUB_TOKEN", "INPUT_ACTION_INPUTS_PRESENT", "GITHUB_ACTION_INPUTS",
   "INPUT_CODEX_ARGS", "INPUT_CLAUDE_ARGS", "PATH",
   "CLAUDE_CODE_USE_BEDROCK", "CLAUDE_CODE_USE_VERTEX",
   "ANTHROPIC_API_KEY", "CLAUDE_CODE_OAUTH_TOKEN",
   "AWS_REGION", "AWS_ACCESS_KEY_ID", "AWS_SECRET_ACCESS_KEY",
   "ANTHROPIC_VERTEX_PROJECT_ID", "CLOUD_ML_REGION"}

\* An environment with no variable set.
EmptyEnv == [n \in EnvNames |-> JUndefined]

\* a || b
Or(a, b) == IF Truthy(a) THEN a ELSE b

\* A variant in which the plain-named variable wins.
buildCodexEnv_plainFirst(env) ==
  LET openaiApiKey == Or(env["OPENAI_API_KEY"], env["INPUT_OPENAI_API_KEY"])
      openaiBaseUrl == Or(env["OPENAI_BASE_URL"], env["INPUT_OPENAI_BASE_URL"])
      githubToken == env["GITHUB_TOKEN"]
  IN [n \in EnvNames |->
        CASE n = "OPENAI_API_KEY" /\ Truthy(openaiApiKey) -> openaiApiKey
          [] n = "OPENAI_BASE_URL" /\ Truthy(openaiBaseUrl) -> openaiBaseUrl
          [] n = "GITHUB_TOKEN" /\ Truthy(githubToken) -> githubToken
          [] n = "GITHUB_ACTION_INPUTS" /\ Truthy(env["INPUT_ACTION_INPUTS_PRESENT"])
               -> env["INPUT_ACTION_INPUTS_PRESENT"]
          [] OTHER -> JUndefined]

buildCodexEnv(env) ==
  LET openaiApiKey == Or(env["INPUT_OPENAI_API_KEY"], env["OPENAI_API_KEY"])
      openaiBaseUrl == Or(env["INPUT_OPENAI_BASE_URL"], env["OPENAI_BASE_URL"])
      githubToken == env["GITHUB_TOKEN"]
  IN [n \in EnvNames |->
        CASE n = "OPENAI_API_KEY" /\ Truthy(openaiApiKey) -> openaiApiKey
          [] n = "OPENAI_BASE_URL" /\ Truthy(openaiBaseUrl) -> openaiBaseUrl
          [] n = "GITHUB_TOKEN" /\ Truthy(githubToken) -> githubToken
          [] n = "GITHUB_ACTION_INPUTS" /\ Truthy(env["INPUT_ACTION_INPUTS_PRESENT"])
               -> env["INPUT_ACTION_INPUTS_PRESENT"]
          [] OTHER -> JUndefined]

\* A variant without --full-auto.
FallbackCodexArgs_noFullAuto ==
  << << "exec" >>, << "--experimental-json" >>,
     << "--dangerously-bypass-approvals-and-sandbox" >> >>

\* The fallback list of prepareCodexConfig.
FallbackCodexArgs ==
  << << "exec" >>, << "--full-auto" >>, << "--experimental-json" >>,
     << "--dangerously-bypass-approvals-and-sandbox" >> >>

\* A variant that starts customEnv from the overlays only.
prepareCodexConfig_overlaysOnly(promptPath, options, env) ==
  [codexArgs |-> IF options.codexArgs.t = "string" /\ trim(options.codexArgs.s) # << >>
                   THEN parseShellArgs(options.codexArgs.s)
                   ELSE FallbackCodexArgs,
   promptPath |-> promptPath,
   env |-> buildCodexEnv(env)]

\* options is [codexArgs, pathToCodexExecutable], env is process.env.
prepareCodexConfig(promptPath, options, env) ==
  LET openaiApiKey == Or(env["INPUT_OPENAI_API_KEY"], env["OPENAI_API_KEY"])
      openaiBaseUrl == Or(env["INPUT_OPENAI_BASE_URL"], env["OPENAI_BASE_URL"])
      customEnv ==
        [n \in EnvNames |->
           CASE n = "OPENAI_API_KEY" /\ Truthy(openaiApiKey) -> openaiApiKey
             [] n = "OPENAI_BASE_URL" /\ Truthy(openaiBaseUrl) -> openaiBaseUrl
             [] n = "GITHUB_TOKEN" /\ Truthy(env["GITHUB_TOKEN"]) -> env["GITHUB_TOKEN"]
             [] n = "GITHUB_ACTION_INPUTS" /\ Truthy(env["INPUT_ACTION_INPUTS_PRESENT"])
                  -> env["INPUT_ACTION_INPUTS_PRESENT"]
             [] OTHER -> env[n]]
  IN [codexArgs |-> IF options.codexArgs.t = "string" /\ trim(options.codexArgs.s) # << >>
                      THEN parseShellArgs(options.codexArgs.s)
                      ELSE FallbackCodexArgs,
      promptPath |-> promptPath,
      env |-> customEnv]

\* process.env.INPUT_USE_CODEX === "true" || process.env.INPUT_PATH_TO_CODEX_EXECUTABLE
useCodex(env) ==
  env["INPUT_USE_CODEX"] = JStr(<< "true" >>)
    \/ Truthy(env["INPUT_PATH_TO_CODEX_EXECUTABLE"])

\* A variant that checks the Claude credentials only.
ValidationErrors_claudeOnly(env) ==
  LET useBedrock == env["CLAUDE_CODE_USE_BEDROCK"] = JStr(<< "1" >>)
      useVertex == env["CLAUDE_CODE_USE_VERTEX"] = JStr(<< "1" >>)
      Missing(names) == Cardinality({n \in names : ~Truthy(env[n])})
  IN IF useCodex(env) THEN 0
     ELSE (IF useBedrock /\ useVertex THEN 1 ELSE 0)
          + (IF ~useBedrock /\ ~useVertex
               THEN (IF ~Truthy(env["ANTHROPIC_API_KEY"])
                        /\ ~Truthy(env["CLAUDE_CODE_OAUTH_TOKEN"]) THEN 1 ELSE 0)
             ELSE IF useBedrock
               THEN Missing({"AWS_REGION", "AWS_ACCESS_KEY_ID", "AWS_SECRET_ACCESS_KEY"})
             ELSE Missing({"ANTHROPIC_VERTEX_PROJECT_ID", "CLOUD_ML_REGION"}))

\* The number of entries of errors[] when the function is done with its
\* checks; it throws when there is one.
ValidationErrors(env) ==
  LET useBedrock == env["CLAUDE_CODE_USE_BEDROCK"] = JStr(<< "1" >>)
      useVertex == env["CLAUDE_CODE_USE_VERTEX"] = JStr(<< "1" >>)
      openaiApiKey == Or(env["OPENAI_API_KEY"], env["INPUT_OPENAI_API_KEY"])
      Missing(names) == Cardinality({n \in names : ~Truthy(env[n])})
  IN IF useCodex(env) THEN (IF ~Truthy(openaiApiKey) THEN 1 ELSE 0)
     ELSE (IF useBedrock /\ useVertex THEN 1 ELSE 0)
          + (IF ~useBedrock /\ ~useVertex
               THEN (IF ~Truthy(env["ANTHROPIC_API_KEY"])
                        /\ ~Truthy(env["CLAUDE_CODE_OAUTH_TOKEN"]) THEN 1 ELSE 0)
             ELSE IF useBedrock
               THEN Missing({"AWS_REGION", "AWS_ACCESS_KEY_ID", "AWS_SECRET_ACCESS_KEY"})
             ELSE Missing({"ANTHROPIC_VERTEX_PROJECT_ID", "CLOUD_ML_REGION"}))

\* TRUE when validateEnvironmentVariables() returns, FALSE when it throws.
validateEnvironmentVariables(env) == ValidationErrors(env) = 0

----------------------------------------------------------------------------
(* The inputs explored.                                                    *)

\* "w" as JSON text
Q(w) == << DQ, w, DQ >>

\* {"mcpServers":{"github":{"command":"npx","args":["-y","pkg"]}}}
DocGithub ==
  << "{" >> \o Q("mcpServers") \o << ":", "{" >> \o Q("github") \o << ":", "{" >>
    \o Q("command") \o << ":" >> \o Q("npx") \o << "," >>
    \o Q("args") \o << ":", "[" >> \o Q("-y") \o << "," >> \o Q("pkg")
    \o << "]", "}", "}", "}" >>

\* {"mcpServers":{"s":{"command":"run","env":{"A":"x\"y","B":"z"},
\*                     "startup_timeout_sec":30,"tool_timeout_sec":0}}}
DocEnv ==
  << "{" >> \o Q("mcpServers") \o << ":", "{" >> \o Q("s") \o << ":", "{" >>
    \o Q("command") \o << ":" >> \o Q("run") \o << "," >>
    \o Q("env") \o << ":", "{" >> \o Q("A") \o << ":", DQ, "x", BS, DQ, "y", DQ, "," >>
    \o Q("B") \o << ":" >> \o Q("z") \o << "}", "," >>
    \o Q("startup_timeout_sec") \o << ":", "30", "," >>
    \o Q("tool_timeout_sec") \o << ":", "0", "}", "}", "}" >>

\* {"mcpServers":{"github":{"command":"npx"},"bad":null,"late":{"command":""}}}
DocNull ==
  << "{" >> \o Q("mcpServers") \o << ":", "{" >> \o Q("github") \o << ":", "{" >>
    \o Q("command") \o << ":" >> \o Q("npx") \o << "}", "," >>
    \o Q("bad") \o << ":", "null", "," >>
    \o Q("late") \o << ":", "{" >> \o Q("command") \o << ":", DQ, DQ, "}", "}", "}" >>

\* {"mcpServers":{"github":   -- not JSON
DocMalformed ==
  << "{" >> \o Q("mcpServers") \o << ":", "{" >> \o Q("github") \o << ":" >>

\* The pieces a claudeArgs string is put together from.
ClaudeSegments ==
  { << "--mcp-config", SP, SQ >> \o DocGithub \o << SQ >>,
    << "--mcp-config", SP, SQ >> \o DocEnv \o << SQ >>,
    << "--mcp-config", SP, SQ >> \o DocMalformed \o << SQ >>,
    << "--allowedTools", SP, DQ, "Edit", ",", "Read", DQ >>,
    << "--verbose" >>,
    << "--output-format", SP, "json" >>,
    << "--model", SP, DQ, "gpt", SP, "5", DQ >>,
    << "--mcp-config" >>,
    << >> }

\* The largest number of pieces in one claudeArgs.
MaxSegments == 2

ClaudeArgsInputs ==
  { join(p, << SP >>) :
      p \in UNION { [1..n -> ClaudeSegments] : n \in 0..MaxSegments } }

AdditionalMcpConfigInputs ==
  { JUndefined, JStr(DocGithub), JStr(DocMalformed), JStr(DocNull) }

UserCodexArgsInputs ==
  { JUndefined, JStr(<< "--timeout", SP, "300s", SP, "-c", SP, "model", "=", DQ, "o3", DQ >>) }

PromptInputs == { JUndefined, JStr(<< "fix", SP, "it" >>) }

PromptPath == << "/tmp/prompt.txt" >>

----------------------------------------------------------------------------
(* State.                                                                  *)

VARIABLES
  claudeArgs,           \* the arguments of buildCodexArgs ...
  additionalMcpConfig,
  userCodexArgs,
  prompt,
  built,                \* << >> or << [impl, codexArgs, result] >>: the list
                        \* assembled by the revision impl and the string returned
  env,                  \* process.env
  builtEnv,             \* << >> or << the map returned by buildCodexEnv >>
  config,               \* << >> or << the PreparedCodexConfig >>
  pc,                   \* where run() / runCodex() is
  child,                \* the subprocess and its events
  listening,            \* the close/error listeners of the wait are attached
  stdin,                \* what was written to the subprocess's input
  output,               \* chunks of subprocess output captured
  exitCode,             \* << >> or << the value the wait resolved with >>
  conclusion,           \* the "conclusion" output: "none", "success", "failure"
  exitStatus,           \* << >> or << the argument of process.exit >>
  persisted,            \* "none", "saved" or "failed": output.txt / execution file
  error                 \* what run() caught: "none", "validation", "prompt", "read"

tvars == << claudeArgs, additionalMcpConfig, userCodexArgs, prompt, built >>
evars == << env, builtEnv >>
rvars == << pc, child, listening, stdin, output, exitCode, conclusion,
            exitStatus, persisted, error >>
vars == << claudeArgs, additionalMcpConfig, userCodexArgs, prompt, built,
           env, builtEnv, config,
           pc, child, listening, stdin, output, exitCode, conclusion,
           exitStatus, persisted, error >>

NoChild == [state |-> "none", code |-> 0, bySignal |-> FALSE,
            errorEmitted |-> FALSE, closeEmitted |-> FALSE, signalled |-> FALSE]

\* No run() in progress.
RunnerIdle ==
  /\ pc = "idle"
  /\ child = NoChild
  /\ listening = FALSE
  /\ stdin = "none"
  /\ output = 0
  /\ exitCode = << >>
  /\ conclusion = "none"
  /\ exitStatus = << >>
  /\ persisted = "none"
  /\ error = "none"

TranslatorIdle ==
  /\ claudeArgs = << >>
  /\ additionalMcpConfig = JUndefined
  /\ userCodexArgs = JUndefined
  /\ prompt = JUndefined
  /\ built = << >>

----------------------------------------------------------------------------
(* The translator: one call of buildCodexArgs, then the runner's           *)
(* prepareCodexConfig on the string it returned; or the runner's           *)
(* prepareCodexConfig alone, on the options run() takes from the           *)
(* environment.                                                            *)

Init ==
  /\ claudeArgs \in ClaudeArgsInputs
  /\ additionalMcpConfig \in AdditionalMcpConfigInputs
  /\ userCodexArgs \in UserCodexArgsInputs
  /\ prompt \in PromptInputs
  /\ built = << >>
  /\ env = EmptyEnv
  /\ builtEnv = << >>
  /\ config = << >>
  /\ RunnerIdle

\* buildCodexArgs of src/modes/shared/codex-builder.ts (no prompt parameter)
BuildCodexArgs ==
  /\ built = << >>
  /\ config = << >>
  /\ prompt = JUndefined
  /\ built' = << [impl |-> "codex-builder",
                  codexArgs |-> codexArgs(claudeArgs, additionalMcpConfig, userCodexArgs),
                  result |-> buildCodexArgs(claudeArgs, additionalMcpConfig, userCodexArgs)] >>
  /\ UNCHANGED << claudeArgs, additionalMcpConfig, userCodexArgs, prompt, config >>
  /\ UNCHANGED evars
  /\ UNCHANGED rvars

\* buildCodexArgs of src/unnamed/part_000 (no prompt parameter)
BuildCodexArgs_p0 ==
  /\ built = << >>
  /\ config = << >>
  /\ prompt = JUndefined
  /\ built' = << [impl |-> "part_000",
                  codexArgs |-> codexArgs_p0(claudeArgs, additionalMcpConfig, userCodexArgs),
                  result |-> buildCodexArgs_p0(claudeArgs, additionalMcpConfig, userCodexArgs)] >>
  /\ UNCHANGED << claudeArgs, additionalMcpConfig, userCodexArgs, prompt, config >>
  /\ UNCHANGED evars
  /\ UNCHANGED rvars

\* buildCodexArgs of src/unnamed/part_001
BuildCodexArgs_p1 ==
  /\ built = << >>
  /\ config = << >>
  /\ built' = << [impl |-> "part_001",
                  codexArgs |-> codexArgs_p1(claudeArgs, additionalMcpConfig,
                                             userCodexArgs, prompt),
                  result |-> buildCodexArgs_p1(claudeArgs, additionalMcpConfig,
                                               userCodexArgs, prompt)] >>
  /\ UNCHANGED << claudeArgs, additionalMcpConfig, userCodexArgs, prompt, config >>
  /\ UNCHANGED evars
  /\ UNCHANGED rvars

\* prepareCodexConfig with the returned string as options.codexArgs
PrepareBuiltArgs ==
  /\ built # << >>
  /\ config = << >>
  /\ config' = << prepareCodexConfig(PromptPath,
                    [codexArgs |-> JStr(built[1].result),
                     pathToCodexExecutable |-> JUndefined], env) >>
  /\ UNCHANGED tvars
  /\ UNCHANGED evars
  /\ UNCHANGED rvars

\* The options run() of index.ts passes to runCodex.
OptionsFromEnv(e) ==
  [codexArgs |-> Or(e["INPUT_CODEX_ARGS"], e["INPUT_CLAUDE_ARGS"]),
   pathToCodexExecutable |-> e["INPUT_PATH_TO_CODEX_EXECUTABLE"]]

\* prepareCodexConfig as runCodex calls it, without a string from the builder
PrepareCodexConfig ==
  /\ built = << >>
  /\ config = << >>
  /\ config' = << prepareCodexConfig(PromptPath, OptionsFromEnv(env), env) >>
  /\ UNCHANGED tvars
  /\ UNCHANGED evars
  /\ UNCHANGED rvars

Next ==
  \/ BuildCodexArgs
  \/ BuildCodexArgs_p0
  \/ BuildCodexArgs_p1
  \/ PrepareBuiltArgs
  \/ PrepareCodexConfig

Spec == Init /\ [][Next]_vars

----------------------------------------------------------------------------
(* Credential resolution: buildCodexEnv and prepareCodexConfig on the      *)
(* environments of InitEnv.                                                *)

EnvInputs ==
  { [EmptyEnv EXCEPT
       !["INPUT_OPENAI_API_KEY"] = ik, !["OPENAI_API_KEY"] = k,
       !["INPUT_OPENAI_BASE_URL"] = iu, !["OPENAI_BASE_URL"] = u,
       !["GITHUB_TOKEN"] = t, !["INPUT_ACTION_INPUTS_PRESENT"] = a,
       !["INPUT_CODEX_ARGS"] = c, !["PATH"] = JStr(<< "/usr/bin" >>)] :
      ik \in {JUndefined, JStr(<< >>), JStr(<< "sk-input" >>)},
      k \in {JUndefined, JStr(<< >>), JStr(<< "sk-env" >>)},
      iu \in {JUndefined, JStr(<< >>), JStr(<< "input-url" >>)},
      u \in {JUndefined, JStr(<< >>), JStr(<< "env-url" >>)},
      t \in {JUndefined, JStr(<< "ght" >>)},
      a \in {JUndefined, JStr(<< "1" >>)},
      c \in {JUndefined, JStr(<< "--color", SP, "never" >>)} }

InitEnv ==
  /\ TranslatorIdle
  /\ env \in EnvInputs
  /\ builtEnv = << >>
  /\ config = << >>
  /\ RunnerIdle

BuildCodexEnv ==
  /\ builtEnv = << >>
  /\ builtEnv' = << buildCodexEnv(env) >>
  /\ UNCHANGED << env, config >>
  /\ UNCHANGED tvars
  /\ UNCHANGED rvars

NextEnv ==
  \/ BuildCodexEnv
  \/ PrepareCodexConfig

SpecEnv == InitEnv /\ [][NextEnv]_vars

----------------------------------------------------------------------------
(* run() of index.ts (src/unnamed/part_002) and runCodex                   *)
(* (src/unnamed/part_003) with the subprocess it spawns.                   *)

\* The largest number of output chunks the data listener receives.
MaxChunks == 2

\* The largest exit code the subprocess ends with.
MaxExitCode == 2

ExitCodes == 0..MaxExitCode

RunEnvInputs ==
  { [EmptyEnv EXCEPT
       !["INPUT_USE_CODEX"] = uc, !["INPUT_PATH_TO_CODEX_EXECUTABLE"] = px,
       !["INPUT_OPENAI_API_KEY"] = ik, !["OPENAI_API_KEY"] = k,
       !["ANTHROPIC_API_KEY"] = ak,
       !["INPUT_CODEX_ARGS"] = JStr(<< "exec", SP, "--experimental-json" >>),
       !["PATH"] = JStr(<< "/usr/bin" >>)] :
      uc \in {JUndefined, JStr(<< "true" >>), JStr(<< "false" >>)},
      px \in {JUndefined, JStr(<< >>), JStr(<< "/opt/codex" >>)},
      ik \in {JUndefined, JStr(<< >>), JStr(<< "sk-input" >>)},
      k \in {JUndefined, JStr(<< >>), JStr(<< "sk-env" >>)},
      ak \in {JUndefined, JStr(<< "sk-ant" >>)} }

InitRun ==
  /\ TranslatorIdle
  /\ env \in RunEnvInputs
  /\ builtEnv = << >>
  /\ config = << >>
  /\ pc = "start"
  /\ child = NoChild
  /\ listening = FALSE
  /\ stdin = "none"
  /\ output = 0
  /\ exitCode = << >>
  /\ conclusion = "none"
  /\ exitStatus = << >>
  /\ persisted = "none"
  /\ error = "none"

\* The catch block of run(): setFailed, conclusion "failure", process.exit(1).
Catch(e) ==
  /\ error' = e
  /\ conclusion' = "failure"
  /\ exitStatus' = << 1 >>
  /\ pc' = "exited"

\* run() up to its first await: validation, then the choice of the CLI.
RunStart ==
  /\ pc = "start"
  /\ IF ~validateEnvironmentVariables(env)
       THEN Catch("validation")
       ELSE /\ pc' = IF useCodex(env) THEN "prepare_prompt" ELSE "claude"
            /\ UNCHANGED << error, conclusion, exitStatus >>
  /\ UNCHANGED << child, listening, stdin, output, exitCode, persisted, config >>
  /\ UNCHANGED tvars
  /\ UNCHANGED evars

\* preparePrompt resolves; runCodex prepares its configuration and awaits stat.
PreparePromptResolves ==
  /\ pc = "prepare_prompt"
  /\ config' = << prepareCodexConfig(PromptPath, OptionsFromEnv(env), env) >>
  /\ pc' = "stat"
  /\ UNCHANGED << child, listening, stdin, output, exitCode, conclusion,
                  exitStatus, persisted, error >>
  /\ UNCHANGED tvars
  /\ UNCHANGED evars

\* preparePrompt rejects.
PreparePromptRejects ==
  /\ pc = "prepare_prompt"
  /\ Catch("prompt")
  /\ UNCHANGED << child, listening, stdin, output, exitCode, persisted, config >>
  /\ UNCHANGED tvars
  /\ UNCHANGED evars

\* stat settles either way; spawn; the logging error listener; the read of
\* the prompt file is started.
Spawn ==
  /\ pc = "stat"
  /\ \E started \in BOOLEAN :
       child' = [NoChild EXCEPT
                   !.state = IF started THEN "running" ELSE "spawn_failed",
                   !.code = IF started THEN 0 ELSE -2]
  /\ pc' = "reading"
  /\ UNCHANGED << listening, stdin, output, exitCode, conclusion,
                  exitStatus, persisted, error, config >>
  /\ UNCHANGED tvars
  /\ UNCHANGED evars

\* The read of the prompt file succeeds: the prompt is written and stdin
\* ended, the data listener and the two listeners of the wait are attached.
PromptReadResolves ==
  /\ pc = "reading"
  /\ stdin' = "prompt_ended"
  /\ listening' = TRUE
  /\ pc' = "waiting"
  /\ UNCHANGED << child, output, exitCode, conclusion, exitStatus, persisted,
                  error, config >>
  /\ UNCHANGED tvars
  /\ UNCHANGED evars

\* A variant that rethrows without the kill.
PromptReadRejects_noKill ==
  /\ pc = "reading"
  /\ Catch("read")
  /\ UNCHANGED << child, listening, stdin, output, exitCode, persisted, config >>
  /\ UNCHANGED tvars
  /\ UNCHANGED evars

\* The read of the prompt file fails: kill("SIGTERM"), rethrow to run().
PromptReadRejects ==
  /\ pc = "reading"
  /\ child' = [child EXCEPT !.signalled = TRUE]
  /\ Catch("read")
  /\ UNCHANGED << listening, stdin, output, exitCode, persisted, config >>
  /\ UNCHANGED tvars
  /\ UNCHANGED evars

\* The subprocess ends, with an exit code or killed by a signal.
ChildExits ==
  /\ pc \in {"reading", "waiting"}
  /\ child.state = "running"
  /\ \E code \in ExitCodes, bySignal \in BOOLEAN :
       child' = [child EXCEPT !.state = "exited",
                              !.code = IF bySignal THEN 0 ELSE code,
                              !.bySignal = bySignal]
  /\ UNCHANGED << pc, listening, stdin, output, exitCode, conclusion,
                  exitStatus, persisted, error, config >>
  /\ UNCHANGED tvars
  /\ UNCHANGED evars

\* A chunk of output reaches the data listener.
StdoutData ==
  /\ pc = "waiting"
  /\ exitCode = << >>
  /\ child.state \in {"running", "exited"}
  /\ ~child.closeEmitted
  /\ output < MaxChunks
  /\ output' = output + 1
  /\ UNCHANGED << pc, child, listening, stdin, exitCode, conclusion,
                  exitStatus, persisted, error, config >>
  /\ UNCHANGED tvars
  /\ UNCHANGED evars

\* The "error" event of a subprocess that could not be started: logged by the
\* first listener; the listener of the wait, when attached, resolves with 1.
EmitError ==
  /\ pc \in {"reading", "waiting"}
  /\ child.state = "spawn_failed"
  /\ ~child.errorEmitted
  /\ child' = [child EXCEPT !.errorEmitted = TRUE]
  /\ exitCode' = IF listening /\ exitCode = << >> THEN << 1 >> ELSE exitCode
  /\ UNCHANGED << pc, listening, stdin, output, conclusion, exitStatus,
                  persisted, error, config >>
  /\ UNCHANGED tvars
  /\ UNCHANGED evars

\* The code the "close" event carries: null when killed by a signal.
CloseCode(c) == IF c.bySignal THEN JNull ELSE JNum(c.code)

\* code || 0
CodeOrZero(code) == IF Truthy(code) THEN code.n ELSE 0

\* The "close" event; the listener of the wait, when attached, resolves
\* with code || 0.
EmitClose ==
  /\ pc \in {"reading", "waiting"}
  /\ \/ child.state = "exited"
     \/ child.state = "spawn_failed" /\ child.errorEmitted
  /\ ~child.closeEmitted
  /\ child' = [child EXCEPT !.closeEmitted = TRUE]
  /\ exitCode' = IF listening /\ exitCode = << >>
                   THEN << CodeOrZero(CloseCode(child)) >> ELSE exitCode
  /\ UNCHANGED << pc, listening, stdin, output, conclusion, exitStatus,
                  persisted, error, config >>
  /\ UNCHANGED tvars
  /\ UNCHANGED evars

\* A variant in which a failure to persist the output fails the run.
ConcludeSuccess_persistOrFail ==
  /\ pc = "waiting"
  /\ exitCode = << 0 >>
  /\ \E saved \in BOOLEAN :
       /\ persisted' = IF saved THEN "saved" ELSE "failed"
       /\ conclusion' = IF saved THEN "success" ELSE "failure"
  /\ pc' = "returned"
  /\ UNCHANGED << child, listening, stdin, output, exitCode, exitStatus,
                  error, config >>
  /\ UNCHANGED tvars
  /\ UNCHANGED evars

\* exitCode === 0: the output is persisted or the failure to do so is
\* turned into a warning; conclusion "success"; runCodex and run() return.
ConcludeSuccess ==
  /\ pc = "waiting"
  /\ exitCode = << 0 >>
  /\ \E saved \in BOOLEAN : persisted' = IF saved THEN "saved" ELSE "failed"
  /\ conclusion' = "success"
  /\ pc' = "returned"
  /\ UNCHANGED << child, listening, stdin, output, exitCode, exitStatus,
                  error, config >>
  /\ UNCHANGED tvars
  /\ UNCHANGED evars

\* exitCode !== 0: conclusion "failure"; the output, when there is any, is
\* persisted with failures ignored; process.exit(exitCode).
ConcludeFailure ==
  /\ pc = "waiting"
  /\ exitCode # << >>
  /\ exitCode[1] # 0
  /\ conclusion' = "failure"
  /\ \E saved \in BOOLEAN :
       persisted' = IF output = 0 THEN "none"
                    ELSE IF saved THEN "saved" ELSE "failed"
  /\ exitStatus' = << exitCode[1] >>
  /\ pc' = "exited"
  /\ UNCHANGED << child, listening, stdin, output, exitCode, error, config >>
  /\ UNCHANGED tvars
  /\ UNCHANGED evars

NextRun ==
  \/ RunStart
  \/ PreparePromptResolves
  \/ PreparePromptRejects
  \/ Spawn
  \/ PromptReadResolves
  \/ PromptReadRejects
  \/ ChildExits
  \/ StdoutData
  \/ EmitError
  \/ EmitClose
  \/ ConcludeSuccess
  \/ ConcludeFailure

SpecRun == InitRun /\ [][NextRun]_vars

----------------------------------------------------------------------------
(* Properties of the translator (specification Spec).                      *)

Revisions == {"codex-builder", "part_000", "part_001"}

\* The list the revision impl assembles for the arguments of the state.
CodexArgsOf(impl, ca, amc, uca, pr) ==
  CASE impl = "codex-builder" -> codexArgs(ca, amc, uca)
    [] impl = "part_000" -> codexArgs_p0(ca, amc, uca)
    [] impl = "part_001" -> codexArgs_p1(ca, amc, uca, pr)

ParseClaudeArgsOf(impl, ca) ==
  CASE impl = "codex-builder" -> parseClaudeArgs(ca)
    [] impl = "part_000" -> parseClaudeArgs_p0(ca)
    [] impl = "part_001" -> parseClaudeArgs_p1(ca)

ConvertOf(impl, fragment) ==
  CASE impl = "codex-builder" -> convertMcpConfigToCliArgs(fragment)
    [] impl = "part_000" -> convertMcpConfigToCliArgs_p0(fragment)
    [] impl = "part_001" -> convertMcpConfigToCliArgs_p1(fragment)

\* The configuration fragments of the call: the inline ones, then the
\* additional one.
FragmentsOf(impl, ca, amc) ==
  ParseClaudeArgsOf(impl, ca).mcpConfigs
    \o (IF Truthy(amc) THEN << amc.s >> ELSE << >>)

HasToken(list, token) == \E i \in 1..Len(list) : list[i] = token

BaseTokens ==
  << << "exec" >>, << "--experimental-json" >>,
     << "--dangerously-bypass-approvals-and-sandbox" >> >>

\* C1: the list buildCodexArgs produces never holds a tools.allowed
\* assignment, nor any token that carries a tool name given to
\* --allowedTools: the allowed-tools set is dropped.
C1_AllowedToolsDropped ==
  built # << >> =>
    LET tokens == built[1].codexArgs
        names == ParseClaudeArgsOf(built[1].impl, claudeArgs).allowedTools
    IN \A i \in 1..Len(tokens) :
         /\ ~includes(tokens[i], << "tools", ".", "allowed" >>)
         /\ \A j \in 1..Len(names) :
              names[j] # << >> => ~includes(tokens[i], names[j])

\* C2: the list buildCodexArgs produces has exec as its first token and
\* holds both --experimental-json and
\* --dangerously-bypass-approvals-and-sandbox, whatever the inputs.
C2_FixedTokens ==
  built # << >> =>
    /\ Len(built[1].codexArgs) >= 3
    /\ built[1].codexArgs[1] = << "exec" >>
    /\ HasToken(built[1].codexArgs, << "--experimental-json" >>)
    /\ HasToken(built[1].codexArgs, << "--dangerously-bypass-approvals-and-sandbox" >>)
    /\ startsWith(built[1].result, << "exec", SP >>)

C2_Witness ==
  /\ built # << >>
  /\ built[1].impl = "codex-builder"
  /\ Truthy(userCodexArgs)
  /\ Truthy(additionalMcpConfig)
  /\ Len(built[1].codexArgs) > 6

\* C3: splitting the string buildCodexArgs returned, with the shell-word
\* splitting prepareCodexConfig applies to it, gives back exactly the list
\* of tokens buildCodexArgs assembled.
C3_RoundTrip ==
  (built # << >> /\ built[1].impl = "codex-builder" /\ config # << >>)
    => config[1].codexArgs = built[1].codexArgs

\* A fragment that is not JSON.
Malformed(fragment) == ~JSONparse(fragment).ok

MalformedSegment == << "--mcp-config", SP, SQ >> \o DocMalformed \o << SQ >>

FirstAt(s, seg) ==
  LET at == { i \in 1..(Len(s) - Len(seg) + 1) : SubSeq(s, i, i + Len(seg) - 1) = seg }
  IN IF at = { } THEN 0 ELSE CHOOSE i \in at : \A j \in at : i <= j

\* s without the occurrences of seg.
RECURSIVE Without(_, _)
Without(s, seg) ==
  LET i == FirstAt(s, seg) IN
  IF i = 0 THEN s
  ELSE SubSeq(s, 1, i - 1) \o Without(SubSeq(s, i + Len(seg), Len(s)), seg)

RECURSIVE WellFormedOnly(_)
WellFormedOnly(fragments) ==
  IF fragments = << >> THEN << >>
  ELSE (IF Malformed(Head(fragments)) THEN << >> ELSE << Head(fragments) >>)
         \o WellFormedOnly(Tail(fragments))

\* Taking the malformed inline fragment out of claudeArgs takes it, and
\* nothing else, out of what parseClaudeArgs finds.
CleanRemoval(impl, ca) ==
  LET p == ParseClaudeArgsOf(impl, ca)
      q == ParseClaudeArgsOf(impl, Without(ca, MalformedSegment))
  IN /\ q.mcpConfigs = WellFormedOnly(p.mcpConfigs)
     /\ q.allowedTools = p.allowedTools
     /\ q.otherArgs = p.otherArgs

\* C5: a configuration fragment that is not JSON contributes no token, and
\* the list produced is the one produced with that fragment absent: the
\* malformed additionalMcpConfig left undefined, the malformed inline
\* --mcp-config taken out of claudeArgs.
C5_MalformedFragment ==
  built # << >> =>
    LET impl == built[1].impl
        fragments == FragmentsOf(impl, claudeArgs, additionalMcpConfig)
        amc == IF Truthy(additionalMcpConfig) /\ Malformed(additionalMcpConfig.s)
                 THEN JUndefined ELSE additionalMcpConfig
    IN /\ \A i \in 1..Len(fragments) :
            Malformed(fragments[i]) => ConvertOf(impl, fragments[i]) = << >>
       /\ (/\ amc # additionalMcpConfig \/ FirstAt(claudeArgs, MalformedSegment) > 0
           /\ CleanRemoval(impl, claudeArgs)) =>
            built[1].codexArgs =
              CodexArgsOf(impl, Without(claudeArgs, MalformedSegment), amc,
                          userCodexArgs, prompt)

C5_Witness ==
  /\ built # << >>
  /\ built[1].impl = "codex-builder"
  /\ FirstAt(claudeArgs, MalformedSegment) > 0
  /\ CleanRemoval("codex-builder", claudeArgs)
  /\ additionalMcpConfig = JStr(DocMalformed)
  /\ HasToken(built[1].codexArgs,
              << "mcp_servers", ".", "github", ".", "command", "=", DQ, "npx", DQ >>)

\* A document of the shape of ToolServerConfig.
WellFormedServer(c) ==
  /\ c.t = "object"
  /\ Get(c, << "command" >>).t = "string"
  /\ Get(c, << "args" >>).t \in {"undefined", "array"}
  /\ Get(c, << "env" >>).t \in {"undefined", "object"}

WellFormedDoc(fragment) ==
  LET parsed == JSONparse(fragment) IN
  /\ parsed.ok
  /\ parsed.val.t = "object"
  /\ Get(parsed.val, << "mcpServers" >>).t = "object"
  /\ \A i \in 1..Len(Entries(Get(parsed.val, << "mcpServers" >>))) :
       WellFormedServer(Entries(Get(parsed.val, << "mcpServers" >>))[i].v)

ServersOf(fragment) == Entries(Get(JSONparse(fragment).val, << "mcpServers" >>))

\* The server ids of the documents explored.
ServerIds == { << "github" >>, << "s" >>, << "bad" >>, << "late" >> }

\* How many times the fragments define server id with the field present.
Definitions(fragments, id, field) ==
  Cardinality({ d \in (1..Len(fragments)) \X (1..Cardinality(ServerIds)) :
                  /\ d[2] <= Len(ServersOf(fragments[d[1]]))
                  /\ ServersOf(fragments[d[1]])[d[2]].k = id
                  /\ Get(ServersOf(fragments[d[1]])[d[2]].v, field).t # "undefined" })

\* How many env keys the fragments give server id.
RECURSIVE EnvKeys(_, _)
EnvKeys(fragments, id) ==
  IF fragments = << >> THEN 0
  ELSE LET servers == ServersOf(Head(fragments))
           at == { i \in 1..Len(servers) : servers[i].k = id /\ Get(servers[i].v, << "env" >>).t = "object" }
       IN (IF at = { } THEN 0
           ELSE Len(Entries(Get(servers[CHOOSE i \in at : TRUE].v, << "env" >>))))
          + EnvKeys(Tail(fragments), id)

Assignments(tokens, prefix) ==
  Cardinality({ i \in 1..Len(tokens) : startsWith(tokens[i], prefix) })

\* Every double quote of the value of an assignment, but for the pair
\* around it, follows a backslash.
QuotesEscaped(token) ==
  LET eq == CHOOSE i \in 1..Len(token) : token[i] = "=" /\ \A j \in 1..(i - 1) : token[j] # "="
      value == SubSeq(token, eq + 1, Len(token))
  IN /\ Len(value) >= 2
     /\ value[1] = DQ
     /\ value[Len(value)] = DQ
     /\ \A j \in 2..(Len(value) - 1) : value[j] = DQ => value[j - 1] = BS

\* C6: for well-formed documents each server id contributes one command
\* assignment, one args assignment whose value is the JSON array encoding of
\* args, and one separate assignment per key of env in which the double
\* quotes of the value are escaped.
C6_OneAssignmentPerField ==
  (/\ built # << >>
   /\ built[1].impl \in {"codex-builder", "part_000"}
   /\ \A i \in 1..Len(FragmentsOf(built[1].impl, claudeArgs, additionalMcpConfig)) :
        WellFormedDoc(FragmentsOf(built[1].impl, claudeArgs, additionalMcpConfig)[i]))
  =>
    LET fragments == FragmentsOf(built[1].impl, claudeArgs, additionalMcpConfig)
        tokens == built[1].codexArgs
    IN \A id \in ServerIds :
         LET prefix == << "mcp_servers", "." >> \o id \o << "." >> IN
         /\ Assignments(tokens, prefix \o << "command", "=" >>)
              = Definitions(fragments, id, << "command" >>)
         /\ Assignments(tokens, prefix \o << "args", "=" >>)
              = Definitions(fragments, id, << "args" >>)
         /\ \A i \in 1..Len(tokens) :
              startsWith(tokens[i], prefix \o << "args", "=" >>) =>
                \E f \in 1..Len(fragments) : \E e \in 1..Len(ServersOf(fragments[f])) :
                  /\ ServersOf(fragments[f])[e].k = id
                  /\ tokens[i] = prefix \o << "args", "=" >>
                       \o JSONstringify(Get(ServersOf(fragments[f])[e].v, << "args" >>))
         /\ Assignments(tokens, prefix \o << "env" >>) = EnvKeys(fragments, id)
         /\ \A i \in 1..Len(tokens) :
              startsWith(tokens[i], prefix \o << "env" >>) => QuotesEscaped(tokens[i])

\* The call has nothing to translate.
NothingToTranslate ==
  /\ trim(claudeArgs) = << >>
  /\ additionalMcpConfig = JUndefined
  /\ userCodexArgs = JUndefined
  /\ prompt = JUndefined

\* C8 as stated: with an empty or whitespace-only claudeArgs and nothing
\* else given, buildCodexArgs produces exactly exec, --experimental-json,
\* --dangerously-bypass-approvals-and-sandbox, and so does prepareCodexConfig
\* when it is given no argument string.
C8_ExactlyThreeTokens ==
  /\ (built # << >> /\ NothingToTranslate) => built[1].codexArgs = BaseTokens
  /\ (built = << >> /\ config # << >> /\ ~Truthy(OptionsFromEnv(env).codexArgs))
       => config[1].codexArgs = BaseTokens

\* C8 amended: with an empty or whitespace-only claudeArgs and nothing else
\* given, codex-builder.ts and part_000 produce exactly the three tokens;
\* part_001 produces exec, --full-auto, the two flags and the token
\* "-c env_key=OPENAI_API_KEY"; the fallback of prepareCodexConfig is exec,
\* --full-auto and the two flags.
C8_MinimalLists ==
  /\ (built # << >> /\ NothingToTranslate) =>
       built[1].codexArgs =
         IF built[1].impl = "part_001"
           THEN << << "exec" >>, << "--full-auto" >>, << "--experimental-json" >>,
                   << "--dangerously-bypass-approvals-and-sandbox" >>,
                   << "-c", SP, "env_key", "=", "OPENAI_API_KEY" >> >>
           ELSE BaseTokens
  /\ (built = << >> /\ config # << >> /\ ~Truthy(OptionsFromEnv(env).codexArgs))
       => config[1].codexArgs =
            << << "exec" >>, << "--full-auto" >>, << "--experimental-json" >>,
               << "--dangerously-bypass-approvals-and-sandbox" >> >>

C8_Witness ==
  /\ built # << >>
  /\ built[1].impl = "part_000"
  /\ claudeArgs = << SP >>
  /\ NothingToTranslate
  /\ Len(built[1].codexArgs) = 3

----------------------------------------------------------------------------
(* Properties of the credential resolution (specification SpecEnv).        *)

CredentialPairs ==
  { << "INPUT_OPENAI_API_KEY", "OPENAI_API_KEY" >>,
    << "INPUT_OPENAI_BASE_URL", "OPENAI_BASE_URL" >> }

\* The maps produced so far: by buildCodexEnv, by prepareCodexConfig.
ResolvedMaps ==
  (IF builtEnv # << >> THEN { builtEnv[1] } ELSE { })
    \cup (IF config # << >> THEN { config[1].env } ELSE { })

\* C7 as stated, a variable counting as set when its value is not empty:
\* with both variables set the INPUT_ value is the result, with only the
\* plain-named one set its value is, with neither set the map has no entry;
\* for the API key and for the base URL, in buildCodexEnv and in
\* prepareCodexConfig.
C7_Precedence ==
  \A m \in ResolvedMaps : \A pr \in CredentialPairs :
    /\ (Truthy(env[pr[1]]) /\ Truthy(env[pr[2]])) => m[pr[2]] = env[pr[1]]
    /\ (~Truthy(env[pr[1]]) /\ Truthy(env[pr[2]])) => m[pr[2]] = env[pr[2]]
    /\ (~Truthy(env[pr[1]]) /\ ~Truthy(env[pr[2]])) => m[pr[2]] = JUndefined

\* C7 amended: a non-empty INPUT_ value is the result; otherwise a
\* non-empty plain-named value is; with neither non-empty the map of
\* buildCodexEnv has no entry, and the map of prepareCodexConfig has the
\* plain-named variable as inherited: absent, or present and empty.
C7_PrecedenceNonEmpty ==
  /\ \A m \in ResolvedMaps : \A pr \in CredentialPairs :
       /\ Truthy(env[pr[1]]) => m[pr[2]] = env[pr[1]]
       /\ (~Truthy(env[pr[1]]) /\ Truthy(env[pr[2]])) => m[pr[2]] = env[pr[2]]
  /\ \A pr \in CredentialPairs :
       (~Truthy(env[pr[1]]) /\ ~Truthy(env[pr[2]])) =>
         /\ builtEnv # << >> => builtEnv[1][pr[2]] = JUndefined
         /\ config # << >> => config[1].env[pr[2]] = env[pr[2]]

C7_Witness ==
  /\ builtEnv # << >>
  /\ config # << >>
  /\ env["INPUT_OPENAI_API_KEY"] = JStr(<< "sk-input" >>)
  /\ env["OPENAI_API_KEY"] = JStr(<< "sk-env" >>)
  /\ env["INPUT_OPENAI_BASE_URL"] = JUndefined
  /\ env["OPENAI_BASE_URL"] = JStr(<< "env-url" >>)
  /\ builtEnv[1]["OPENAI_API_KEY"] = JStr(<< "sk-input" >>)
  /\ config[1].env["OPENAI_BASE_URL"] = JStr(<< "env-url" >>)

----------------------------------------------------------------------------
(* Properties of run() and runCodex (specification SpecRun).               *)

\* runCodex is past its decision on the exit code.
Concluded == exitCode # << >> /\ pc \in {"returned", "exited"}

\* C4: the conclusion follows the exit code alone: with 0 it is "success"
\* whether the output was persisted or not; with another code it is
\* "failure", a failure to persist is ignored and the runner exits with
\* that code, which is the code of the subprocess when it ended with one.
C4_ConclusionByExitCode ==
  /\ Concluded =>
       IF exitCode[1] = 0
         THEN conclusion = "success" /\ pc = "returned" /\ exitStatus = << >>
         ELSE conclusion = "failure" /\ pc = "exited" /\ exitStatus = exitCode
  /\ (exitCode # << >> /\ child.state = "exited" /\ ~child.bySignal)
       => exitCode[1] = child.code
  /\ conclusion = "success" => exitCode = << 0 >>

C4_Witness ==
  /\ Concluded
  /\ child.state = "exited"
  /\ ~child.bySignal
  /\ child.code = 0
  /\ persisted = "failed"
  /\ conclusion = "success"

NoApiKey(e) == ~Truthy(e["OPENAI_API_KEY"]) /\ ~Truthy(e["INPUT_OPENAI_API_KEY"])

\* C9: in Codex mode with neither OPENAI_API_KEY nor INPUT_OPENAI_API_KEY
\* non-empty, no subprocess is ever spawned and no configuration prepared,
\* and run() ends in its catch block with the validation error: conclusion
\* "failure", exit status 1.
C9_NoKeyNoSpawn ==
  (useCodex(env) /\ NoApiKey(env)) =>
    /\ child = NoChild
    /\ config = << >>
    /\ pc \in {"start", "exited"}
    /\ pc = "exited" =>
         error = "validation" /\ conclusion = "failure" /\ exitStatus = << 1 >>

C9_Witness ==
  /\ useCodex(env)
  /\ NoApiKey(env)
  /\ env["OPENAI_API_KEY"] = JStr(<< >>)
  /\ pc = "exited"
  /\ error = "validation"

\* C10: when the read of the prompt file fails after the spawn, the
\* subprocess has been sent SIGTERM, nothing was written to its input, the
\* wait was never set up, and run() ends in its catch block: conclusion
\* "failure", never "success", exit status 1.
C10_PromptReadFailure ==
  error = "read" =>
    /\ child.state # "none"
    /\ child.signalled
    /\ stdin = "none"
    /\ ~listening
    /\ exitCode = << >>
    /\ conclusion = "failure"
    /\ exitStatus = << 1 >>
    /\ pc = "exited"

C10_Witness ==
  /\ error = "read"
  /\ child.state = "exited"
  /\ child.signalled
  /\ conclusion = "failure"

----------------------------------------------------------------------------
(* Further properties of run() and runCodex (specification SpecRun).       *)

\* C11: when the spawn fails, in every interleaving of the error event
\* with the prompt read, the attachment of the listeners of the wait and
\* the close event, the wait resolves with 1 and the conclusion is
\* "failure": never "success", and the wait is not left unresolved once the
\* events of the subprocess are over.
C11_SpawnFailureIsExitOne ==
  child.state = "spawn_failed" =>
    /\ conclusion # "success"
    /\ exitCode # << >> => exitCode = << 1 >>
    /\ (pc = "waiting" /\ child.errorEmitted /\ child.closeEmitted) => exitCode # << >>
    /\ Concluded => (conclusion = "failure" /\ exitStatus = << 1 >>)

----------------------------------------------------------------------------
(* Further properties of the translator (specification Spec).              *)

ValueFlags == { << "--mcp-config" >>, << "--allowedTools" >> }

\* The indices at which the loop of parseClaudeArgs looks for a flag: a
\* value-taking flag followed by a token takes that token as its value.
RECURSIVE LoopPositions(_, _)
LoopPositions(args, i) ==
  IF i > Len(args) THEN { }
  ELSE {i} \cup LoopPositions(args, IF args[i] \in ValueFlags /\ i + 1 <= Len(args)
                                      THEN i + 2 ELSE i + 1)

ClassifyOf(impl, args) ==
  CASE impl = "codex-builder" -> ClassifyArgs(args, 1, NoClaudeArgs)
    [] impl = "part_000" -> ClassifyArgs_p0(args, 1, NoClaudeArgs)
    [] impl = "part_001" -> ClassifyArgs_p1(args, 1, NoClaudeArgs)

\* C12: a --mcp-config or --allowedTools that is the last token of
\* claudeArgs, and so has no value, is dropped: the fragments and tool names
\* are those of the tokens before it, and the flag is neither among the
\* pass-through arguments nor anywhere in the output.
C12_TrailingFlagDropped ==
  built # << >> =>
    LET args == parseShellArgs(claudeArgs)
        n == Len(args)
        p == ParseClaudeArgsOf(built[1].impl, claudeArgs)
        q == ClassifyOf(built[1].impl, SubSeq(args, 1, n - 1))
    IN (n > 0 /\ args[n] \in ValueFlags /\ n \in LoopPositions(args, 1)) =>
         /\ p.mcpConfigs = q.mcpConfigs
         /\ p.allowedTools = q.allowedTools
         /\ p.otherArgs = q.otherArgs
         /\ ~HasToken(built[1].codexArgs, args[n])

\* The tokens of userCodexArgs.
UserTokens ==
  IF userCodexArgs.t = "string" /\ trim(userCodexArgs.s) # << >>
    THEN parseShellArgs(userCodexArgs.s) ELSE << >>

\* The least index at which list holds token, 0 when it does not.
PositionOf(list, token) ==
  IF HasToken(list, token)
    THEN CHOOSE i \in 1..Len(list) : list[i] = token /\ \A j \in 1..(i - 1) : list[j] # token
    ELSE 0

\* C13: the execution-level options of userCodexArgs (tokens beginning with
\* "--" other than the two safety flags, each with its following non-flag
\* value) are in the output in their order directly after exec, nothing in
\* between, and before --experimental-json and
\* --dangerously-bypass-approvals-and-sandbox.
C13_ExecOptionsAfterExec ==
  built # << >> =>
    LET tokens == built[1].codexArgs
        opts == ExecOptions_p1(UserTokens, 1)
    IN opts # << >> =>
         /\ tokens[1] = << "exec" >>
         /\ Len(tokens) >= 1 + Len(opts)
         /\ SubSeq(tokens, 2, 1 + Len(opts)) = opts
         /\ PositionOf(tokens, << "--experimental-json" >>) > 1 + Len(opts)
         /\ PositionOf(tokens, << "--dangerously-bypass-approvals-and-sandbox" >>)
              > 1 + Len(opts)

\* The tokens of args from index i on that are neither --mcp-config or
\* --allowedTools with its value, nor begin with --verbose, nor contain
\* output-format.
RECURSIVE PassThroughTokens(_, _)
PassThroughTokens(args, i) ==
  IF i > Len(args) THEN << >>
  ELSE IF args[i] \in ValueFlags /\ i + 1 <= Len(args)
    THEN PassThroughTokens(args, i + 2)
  ELSE (IF ~StartsWithVerbose(args[i]) /\ ~IncludesOutputFormat(args[i])
          THEN << args[i] >> ELSE << >>)
       \o PassThroughTokens(args, i + 1)

Count(list, token) == Cardinality({ i \in 1..Len(list) : list[i] = token })

\* C14: the pass-through tokens of claudeArgs are in the output of
\* codex-builder.ts unmodified, in their order and as one contiguous block
\* (the one before the tokens of userCodexArgs), each as many times as
\* claudeArgs and userCodexArgs hold it.
C14_PassThrough ==
  (built # << >> /\ built[1].impl = "codex-builder") =>
    LET tokens == built[1].codexArgs
        pass == PassThroughTokens(parseShellArgs(claudeArgs), 1)
        last == Len(tokens) - Len(UserTokens)
    IN /\ last - Len(pass) >= 3
       /\ SubSeq(tokens, last - Len(pass) + 1, last) = pass
       /\ \A i \in 1..Len(pass) :
            Count(tokens, pass[i]) = Count(pass, pass[i]) + Count(UserTokens, pass[i])

C14_Witness ==
  /\ built # << >>
  /\ built[1].impl = "codex-builder"
  /\ Truthy(userCodexArgs)
  /\ Truthy(additionalMcpConfig)
  /\ PassThroughTokens(parseShellArgs(claudeArgs), 1)
       = << << "--model" >>, << "gpt", SP, "5" >>, << "--model" >>, << "gpt", SP, "5" >> >>

\* The assignments of server id in tokens.
AssignmentsAt(tokens, id) ==
  { i \in 1..Len(tokens) :
      startsWith(tokens[i], << "mcp_servers", "." >> \o id \o << "." >>) }

\* Between the first and the last assignment of server id, tokens holds
\* only assignments of id and the -c in front of each.
Contiguous(tokens, id) ==
  LET at == AssignmentsAt(tokens, id) IN
  \A i \in at : \A j \in at : \A k \in i..j :
    k \in at \/ (tokens[k] = << "-c" >> /\ (k + 1) \in at)

\* C15: in the list buildCodexArgs produces the assignments of one server
\* id, mcp_servers.<id>.*, are contiguous, also when several fragments
\* define the same id.
C15_ServerAssignmentsContiguous ==
  (built # << >> /\ built[1].impl = "codex-builder") =>
    \A id \in ServerIds : Contiguous(built[1].codexArgs, id)

----------------------------------------------------------------------------
(* Further properties of the environment (specification SpecEnv).          *)

\* The keys prepareCodexConfig may set itself.
OverlayKeys ==
  {"OPENAI_API_KEY", "OPENAI_BASE_URL", "GITHUB_TOKEN", "GITHUB_ACTION_INPUTS"}

\* C16: the env map prepareCodexConfig returns holds every variable of the
\* inherited process environment with its value, but for the overlay keys
\* OPENAI_API_KEY, OPENAI_BASE_URL, GITHUB_TOKEN and GITHUB_ACTION_INPUTS,
\* and the call leaves the process environment as it was.
C16_EnvInherited ==
  [][(config = << >> /\ config' # << >>) =>
       /\ env' = env
       /\ \A n \in EnvNames \ OverlayKeys : config'[1].env[n] = env[n]]_vars

C16_Witness ==
  /\ config # << >>
  /\ config[1].env["PATH"] = JStr(<< "/usr/bin" >>)
  /\ config[1].env["INPUT_CODEX_ARGS"] = JStr(<< "--color", SP, "never" >>)
  /\ env["OPENAI_API_KEY"] = JStr(<< "sk-env" >>)
  /\ config[1].env["OPENAI_API_KEY"] = JStr(<< "sk-input" >>)

----------------------------------------------------------------------------
(* Progress of runCodex (specification SpecRunFair).                       *)

\* The event loop runs every callback that is ready and the file system
\* settles every request: each step of run() and runCodex and each event of
\* a subprocess that has ended is eventually taken.  Nothing makes a
\* running subprocess end or write.
SpecRunFair ==
  /\ SpecRun
  /\ WF_vars(RunStart)
  /\ WF_vars(PreparePromptResolves \/ PreparePromptRejects)
  /\ WF_vars(Spawn)
  /\ WF_vars(PromptReadResolves \/ PromptReadRejects)
  /\ WF_vars(EmitError)
  /\ WF_vars(EmitClose)
  /\ WF_vars(ConcludeSuccess)
  /\ WF_vars(ConcludeFailure)

\* C17: whenever the subprocess has terminated, be it before the prompt is
\* read or before the listeners of the wait are attached, runCodex
\* eventually observes it and a conclusion is set.
C17_ExitEventuallyObserved ==
  (child.state \in {"exited", "spawn_failed"}) ~> (conclusion # "none")

----------------------------------------------------------------------------
(* The order of the list buildCodexArgs assembles (specification Spec).    *)

\* The tokens of userArgs the loop over the user's arguments does not put
\* into userExecOptions.
RECURSIVE NotExecOptions(_, _)
NotExecOptions(userArgs, i) ==
  IF i > Len(userArgs) THEN << >>
  ELSE LET arg == userArgs[i] IN
    IF arg # << >> /\ StartsWithDashDash(arg) /\ ~StartsWithExperimentalJson(arg)
         /\ ~StartsWithDangerously(arg)
      THEN IF i + 1 <= Len(userArgs) /\ userArgs[i + 1] # << >>
                /\ ~StartsWithDash(userArgs[i + 1])
             THEN NotExecOptions(userArgs, i + 2)
             ELSE NotExecOptions(userArgs, i + 1)
    ELSE << arg >> \o NotExecOptions(userArgs, i + 1)

\* The tokens that follow the fixed flags: the part of tokens after
\* --dangerously-bypass-approvals-and-sandbox and, where it is pushed with
\* the flags, the env_key assignment.
AfterFlags(tokens) ==
  LET flag == PositionOf(tokens, << "--dangerously-bypass-approvals-and-sandbox" >>)
      last == IF flag < Len(tokens)
                   /\ tokens[flag + 1] = << "-c", SP, "env_key", "=", "OPENAI_API_KEY" >>
                THEN flag + 1 ELSE flag
  IN SubSeq(tokens, last + 1, Len(tokens))

RECURSIVE Converted(_, _)
Converted(impl, fragments) ==
  IF fragments = << >> THEN << >>
  ELSE ConvertOf(impl, Head(fragments)) \o Converted(impl, Tail(fragments))

\* C18: after exec, the execution-level options and the fixed flags, the
\* list buildCodexArgs assembles is the assignments translated from the
\* fragments (the inline ones, then additionalMcpConfig), then the
\* pass-through arguments, then the tokens of userCodexArgs that are not
\* execution-level options, then the prompt token when a prompt is given.
C18_OrderAfterFlags ==
  built # << >> =>
    AfterFlags(built[1].codexArgs)
      = Converted(built[1].impl,
                  FragmentsOf(built[1].impl, claudeArgs, additionalMcpConfig))
          \o ParseClaudeArgsOf(built[1].impl, claudeArgs).otherArgs
          \o NotExecOptions(UserTokens, 1)
          \o (IF built[1].impl = "part_001" /\ Truthy(prompt)
                THEN << << DQ >> \o prompt.s \o << DQ >> >> ELSE << >>)

\* The fields of a server record convertMcpConfigToCliArgs looks at, in the
\* order of its if statements.
ServerFields ==
  << << "command" >>, << "args" >>, << "env" >>,
     << "startup_timeout_sec" >>, << "tool_timeout_sec" >> >>

\* Where out assigns the field of server id.
FieldAt(out, id, field) ==
  { i \in 1..Len(out) :
      startsWith(out[i], << "mcp_servers", "." >> \o id \o << "." >> \o field) }

\* token is path=value with nothing but the = between the path and the value.
PathEqualsValue(token) ==
  /\ \E i \in 1..Len(token) : token[i] = "="
  /\ LET eq == CHOOSE i \in 1..Len(token) :
                 token[i] = "=" /\ \A j \in 1..(i - 1) : token[j] # "="
     IN /\ eq > 1
        /\ token[eq - 1] # SP
        /\ eq < Len(token)
        /\ token[eq + 1] # SP

\* C19: for each server of a well-formed document convertMcpConfigToCliArgs
\* emits an assignment for every field among command, args, env,
\* startup_timeout_sec, tool_timeout_sec the record has, whatever its
\* value, in that order of fields, each as -c followed by one token
\* path=value without white space around the =.
C19_EveryPresentField ==
  built # << >> =>
    LET fragments == FragmentsOf(built[1].impl, claudeArgs, additionalMcpConfig) IN
    \A f \in 1..Len(fragments) :
      WellFormedDoc(fragments[f]) =>
        LET out == ConvertOf(built[1].impl, fragments[f])
            servers == ServersOf(fragments[f])
        IN /\ \A s \in 1..Len(servers) : \A k \in 1..Len(ServerFields) :
                Get(servers[s].v, ServerFields[k]).t # "undefined" =>
                  /\ FieldAt(out, servers[s].k, ServerFields[k]) # { }
                  /\ \A l \in 1..(k - 1) :
                       \A i \in FieldAt(out, servers[s].k, ServerFields[l]) :
                         \A j \in FieldAt(out, servers[s].k, ServerFields[k]) : i < j
           /\ Len(out) % 2 = 0
           /\ \A i \in 1..Len(out) :
                IF i % 2 = 1 THEN out[i] = << "-c" >> ELSE PathEqualsValue(out[i])

----------------------------------------------------------------------------
(* The list the runner spawns with (specification SpecEnv).                *)

\* C20: the argument list of the configuration prepareCodexConfig returns,
\* which runCodex hands to spawn, holds exec, --experimental-json and
\* --dangerously-bypass-approvals-and-sandbox whatever options.codexArgs is.
C20_SpawnListHasFixedTokens ==
  config # << >> =>
    \A i \in 1..Len(BaseTokens) : HasToken(config[1].codexArgs, BaseTokens[i])

----------------------------------------------------------------------------
(* Success and the way the subprocess ended (specification SpecRun).       *)

\* C21: the conclusion is "success" only when the subprocess ended by
\* itself with exit code 0; when it was ended by a signal, so that the
\* close event carries no code, "success" is not reported.
C21_SuccessOnlyOnNormalExit ==
  conclusion = "success" =>
    (child.state = "exited" /\ ~child.bySignal /\ child.code = 0)

----------------------------------------------------------------------------
(* What one fragment contributes (specification Spec).                     *)

\* The conversion of the fragment throws: JSON.parse does, or the loop over
\* the servers does on an entry that is null.
ConversionThrows(fragment) ==
  \/ ~JSONparse(fragment).ok
  \/ /\ Truthy(Get(JSONparse(fragment).val, << "mcpServers" >>))
     /\ \E s \in 1..Len(ServersOf(fragment)) : ServersOf(fragment)[s].v.t = "null"

\* C22: what a fragment contributes is all or nothing: when its conversion
\* fails, on the parse or on an entry of the server map that is not a
\* record, it contributes no token; otherwise it contributes assignments
\* of every one of its servers.
C22_AllOrNothing ==
  built # << >> =>
    LET fragments == FragmentsOf(built[1].impl, claudeArgs, additionalMcpConfig) IN
    \A f \in 1..Len(fragments) :
      LET out == ConvertOf(built[1].impl, fragments[f]) IN
      IF ConversionThrows(fragments[f])
        THEN out = << >>
        ELSE \A s \in 1..Len(ServersOf(fragments[f])) :
               AssignmentsAt(out, ServersOf(fragments[f])[s].k) # { }

----------------------------------------------------------------------------
(* Options of the source tool given with a value (specification Spec).     *)

\* C23: when claudeArgs has the dropped option --output-format followed by
\* its value as a second token, the list buildCodexArgs produces holds
\* neither the flag nor the value.
C23_OutputFormatValueDropped ==
  built # << >> =>
    LET args == parseShellArgs(claudeArgs) IN
    \A i \in LoopPositions(args, 1) :
      (args[i] = << "--output-format" >> /\ i < Len(args)) =>
        /\ ~HasToken(built[1].codexArgs, args[i])
        /\ ~HasToken(built[1].codexArgs, args[i + 1])

====
